---- MODULE Spec2Model ----
(***************************************************************************)
(* Trendgeist scoring and leaderboard engine.                              *)
(*                                                                         *)
(* The store is PostgreSQL under READ COMMITTED: the tables hold the       *)
(* committed rows, a transaction keeps its uncommitted writes in pending   *)
(* buffers and the row locks it took until COMMIT or ROLLBACK, and a       *)
(* statement outside BEGIN/COMMIT commits by itself.                       *)
(*                                                                         *)
(* Numbers with a fractional part are kept as integers: multipliers in     *)
(* tenths, rates and indicator values in thousandths, accuracy in          *)
(* hundredths of a percent, time in milliseconds.                          *)
(***************************************************************************)
EXTENDS Integers, Sequences, FiniteSets, TLC

(* ---------------------------- bounds ----------------------------------- *)

\* forecasts ever created
MaxPreds == 2
\* invocations of scorePrediction
MaxCalls == 3
\* clock advances
MaxTicks == 1
\* leaderboard responses held in the cache at once
MaxCached == 2
\* clock advances around the times to live of the cache
MaxTtlTicks == 3
\* largest capacity of the connection pool
MaxPool == 3

(* --------------------------- constants --------------------------------- *)

BASE_POINTS == 100
\* 1000 * 60 * 60 * 24
DAY_MS == 86400000
\* fed_rate tolerance 0.125, in thousandths
FED_TOLERANCE == 125

\* the JavaScript value undefined, for an optional number
Undefined == -1

Users == {"u1", "u2"}
Procs == {"p1", "p2"}
PredIds == 1 .. MaxPreds
\* the ids a caller may name: those of forecasts and one that never exists
AnyIds == 1 .. MaxPreds + 1

ActualOutcomes == {"YES", "no"}

\* resolutionData bags: {}, numeric change data, a fed rate
NoResolutionData ==
    [actualValue |-> Undefined, previousValue |-> Undefined, actualRate |-> Undefined]

ResolutionDatas ==
    { NoResolutionData,
      [actualValue |-> 3200, previousValue |-> 3000, actualRate |-> Undefined] }

TickSteps == {2 * DAY_MS}

(* ------------------------ pure helpers --------------------------------- *)

Abs(x) == IF x < 0 THEN -x ELSE x

\* String.prototype.toLowerCase on the strings that occur
toLowerCase(s) ==
    CASE s = "YES" -> "yes"
      [] s = "Yes" -> "yes"
      [] s = "NO" -> "no"
      [] s = "HIGHER" -> "higher"
      [] s = "Expired" -> "expired"
      [] OTHER -> s

\* JavaScript truthiness of an optional number: undefined and 0 are falsy
Truthy(n) == n # Undefined /\ n # 0

\* DIFFICULTY_MULTIPLIERS[eventType] || 1.0, in tenths
DIFFICULTY_MULTIPLIERS(eventType) ==
    CASE eventType = "cpi" -> 15
      [] eventType = "unemployment" -> 13
      [] eventType = "fed_rate" -> 20
      [] eventType = "gdp" -> 18
      [] eventType = "payrolls" -> 14
      [] eventType = "housing" -> 12
      [] eventType = "retail_sales" -> 11
      [] eventType = "ppi" -> 13
      [] eventType = "custom" -> 10
      [] OTHER -> 10

\* Inputs at which the double product 100 * m * (1 + c * 0.01) comes out just
\* below an exact half (169.49999999999997 for cpi at confidence 13), so that
\* Math.round gives one less than rounding the exact value.
DoubleBelowHalf(eventType, confidence) ==
    eventType = "cpi" /\ confidence \in {13, 59, 61, 63}

\* calculateBasePoints without its first line, if (!isCorrect) return 0
calculateBasePointsIgnoresCorrect(eventType, confidence, isCorrect) ==
    LET m == DIFFICULTY_MULTIPLIERS(eventType)
        x10 == (BASE_POINTS * m * (100 + confidence)) \div 100
        exact == (x10 + 5) \div 10
    IN  IF DoubleBelowHalf(eventType, confidence) THEN exact - 1 ELSE exact

\* Math.round(BASE_POINTS * difficultyMultiplier * (1 + confidence * 0.01))
calculateBasePoints(eventType, confidence, isCorrect) ==
    IF ~isCorrect THEN 0
    ELSE LET m == DIFFICULTY_MULTIPLIERS(eventType)
             \* BASE_POINTS * (m/10) * (100 + confidence)/100, times 10
             x10 == (BASE_POINTS * m * (100 + confidence)) \div 100
             exact == (x10 + 5) \div 10
         IN  IF DoubleBelowHalf(eventType, confidence) THEN exact - 1 ELSE exact

\* Math.round(STREAK_BONUS * Math.log2(n)) with STREAK_BONUS = 10, for n = 1 .. 16
RoundLog2x10 == <<0, 10, 16, 20, 23, 26, 28, 30, 32, 33, 35, 36, 37, 38, 39, 40>>

\* the bonus of the streak before the increment
calculateStreakBonusOfPrevious(currentStreak) ==
    IF currentStreak - 1 < 2 THEN 0 ELSE RoundLog2x10[currentStreak - 1]

calculateStreakBonus(currentStreak) ==
    IF currentStreak < 2 THEN 0 ELSE RoundLog2x10[currentStreak]

\* calculateTimeBonus comparing with > for >=
calculateTimeBonusStrict(predictionTime, eventTime, basePoints) ==
    LET timeDifference == eventTime - predictionTime
    IN  IF timeDifference > 7 * DAY_MS THEN (basePoints * 20 + 50) \div 100
        ELSE IF timeDifference > 3 * DAY_MS THEN (basePoints * 10 + 50) \div 100
        ELSE IF timeDifference > DAY_MS THEN (basePoints * 5 + 50) \div 100
        ELSE 0

calculateTimeBonus(predictionTime, eventTime, basePoints) ==
    LET timeDifference == eventTime - predictionTime
    IN  IF timeDifference >= 7 * DAY_MS THEN (basePoints * 20 + 50) \div 100
        ELSE IF timeDifference >= 3 * DAY_MS THEN (basePoints * 10 + 50) \div 100
        ELSE IF timeDifference >= DAY_MS THEN (basePoints * 5 + 50) \div 100
        ELSE 0

\* evaluateNumericPrediction reading missing values as 0 (actualValue || 0)
\* instead of falling back to the comparison of the outcomes
evaluateNumericPredictionMissingAsZero(predictedOutcome, predictionValue, actualOutcome, resolutionData) ==
    LET threshold == IF Truthy(predictionValue.threshold) THEN predictionValue.threshold ELSE 0
        actualValue == IF Truthy(resolutionData.actualValue) THEN resolutionData.actualValue ELSE 0
        previousValue == IF Truthy(resolutionData.previousValue)
                         THEN resolutionData.previousValue ELSE 0
        change == actualValue - previousValue
    IN  CASE predictedOutcome = "higher" -> change > threshold
          [] predictedOutcome = "lower" -> change < -threshold
          [] predictedOutcome = "same" -> Abs(change) <= threshold
          [] OTHER -> FALSE

evaluateNumericPrediction(predictedOutcome, predictionValue, actualOutcome, resolutionData) ==
    LET threshold == IF Truthy(predictionValue.threshold) THEN predictionValue.threshold ELSE 0
        actualValue == resolutionData.actualValue
        previousValue == resolutionData.previousValue
        change == actualValue - previousValue
    IN  IF ~Truthy(actualValue) \/ ~Truthy(previousValue)
        THEN toLowerCase(predictedOutcome) = toLowerCase(actualOutcome)
        ELSE CASE predictedOutcome = "higher" -> change > threshold
               [] predictedOutcome = "lower" -> change < -threshold
               [] predictedOutcome = "same" -> Abs(change) <= threshold
               [] OTHER -> FALSE

evaluateFedRatePrediction(predictedOutcome, predictionValue, actualOutcome, resolutionData) ==
    LET predictedRate == predictionValue.rate
        actualRate == resolutionData.actualRate
    IN  IF Truthy(predictedRate) /\ Truthy(actualRate)
        THEN Abs(predictedRate - actualRate) <= FED_TOLERANCE
        ELSE toLowerCase(predictedOutcome) = toLowerCase(actualOutcome)

\* evaluatePrediction comparing the outcomes as they are written, without
\* toLowerCase, in its default branch
evaluatePredictionCaseSensitive(prediction, actualOutcome, resolutionData) ==
    LET predictedOutcome == prediction.predicted_outcome
        predictionValue == prediction.prediction_value
    IN  CASE prediction.event_type \in {"cpi", "unemployment", "gdp"} ->
               evaluateNumericPrediction(predictedOutcome, predictionValue,
                                         actualOutcome, resolutionData)
          [] prediction.event_type = "fed_rate" ->
               evaluateFedRatePrediction(predictedOutcome, predictionValue,
                                         actualOutcome, resolutionData)
          [] OTHER -> predictedOutcome = actualOutcome

evaluatePrediction(prediction, actualOutcome, resolutionData) ==
    LET predictedOutcome == prediction.predicted_outcome
        predictionValue == prediction.prediction_value
    IN  CASE prediction.event_type \in {"cpi", "unemployment", "gdp"} ->
               evaluateNumericPrediction(predictedOutcome, predictionValue,
                                         actualOutcome, resolutionData)
          [] prediction.event_type = "fed_rate" ->
               evaluateFedRatePrediction(predictedOutcome, predictionValue,
                                         actualOutcome, resolutionData)
          [] OTHER -> toLowerCase(predictedOutcome) = toLowerCase(actualOutcome)

(* ----------------------------- state ----------------------------------- *)

VARIABLES
    users,        \* table users: user id -> row
    predictions,  \* table predictions: id -> row
    leaderboard,  \* table leaderboard, category 'overall': user id -> row
    cache,        \* keys present in the cache
    now,          \* the clock, ms
    proc,         \* per request in flight: its position and local variables
    nextId,       \* next forecast id to hand out
    calls,        \* scorePrediction invocations so far
    ticks,        \* clock advances so far
    cacheUp,      \* whether cache operations succeed (isConnected, no client error)
    cached,       \* leaderboard pages in the cache: key -> the response and its expiry
    board,        \* per worker: the response of its last GET /api/leaderboard
    probe,        \* a direct call of a scoring function: its arguments and result
    manager,      \* the CacheManager object, the Redis server and the last cache call
    pool          \* the store's connection pool: its capacity

vars == <<users, predictions, leaderboard, cache, now, proc, nextId, calls, ticks,
          cacheUp, cached, board, probe, manager, pool>>

\* the state only the leaderboard route, the cache's availability and direct
\* calls of the scoring functions and of the cache manager touch
extra == <<cacheUp, cached, board, probe, manager, pool>>

tables == <<users, predictions, leaderboard>>

NoArg == [predictionId |-> 0, actualOutcome |-> "", resolutionData |-> NoResolutionData]

NoCalc == [isCorrect |-> FALSE, basePoints |-> 0, timeBonus |-> 0,
           totalPoints |-> 0, newStreak |-> 0]

\* what the last request of a worker gave back: ok or error, of which operation,
\* the error message, the number of forecasts a sweep selected or of results a
\* batch returned, the number of error entries among a batch's results, and the
\* number of selected forecasts a sweep had not attempted when it ended
NoRet == [status |-> "none", of |-> "", error |-> "", count |-> 0, errors |-> 0,
          remaining |-> 0]

NoReq == [user |-> "", id |-> 0, body |-> <<>>]

IdleProc ==
    [op |-> "idle", pc |-> "idle", queue |-> <<>>, results |-> <<>>, arg |-> NoArg,
     req |-> NoReq, row |-> <<>>, calc |-> NoCalc, txStart |-> 0,
     pendPred |-> <<>>, pendUser |-> <<>>, pendLb |-> <<>>, ret |-> NoRet]

ErrRet(msg) == [NoRet EXCEPT !.status = "error", !.error = msg]
OkRet == [NoRet EXCEPT !.status = "ok"]

\* the response of a leaderboard route: the category asked for (of) and who
\* asked (user, "" without a token), whether it came from the cache or the
\* store, and its body; userRank 0 stands for null
NoBoard == [status |-> "none", of |-> "", user |-> "", from |-> "", leaderboard |-> <<>>,
            totalCount |-> 0, userRank |-> 0, stats |-> <<>>]

NoProbe == [fn |-> "none", args |-> <<>>, result |-> <<>>]

\* new CacheManager(): client null, isConnected false, no memoryCache (<<>>),
\* whether USE_REDIS is 'true'; with it whether connect() was called, whether
\* the Redis server answers, what the server holds, and the last call of
\* set, get or del with its result
NoCall == [fn |-> "none", key |-> "", value |-> "", result |-> "", redisUp |-> TRUE]

NoManager ==
    [useRedis |-> FALSE, client |-> "null", isConnected |-> FALSE, memoryCache |-> <<>>,
     started |-> FALSE, redisUp |-> TRUE, redis |-> <<>>, last |-> NoCall]

\* cache keys
SessionKey(u) == <<"session", u>>
LeaderboardCategories == {"overall", "cpi", "unemployment", "fed_rate", "gdp", "weekly", "monthly"}
LeaderboardKeys ==
    { <<"leaderboard", c, page, limit>> :
        c \in LeaderboardCategories, page \in 1 .. 10, limit \in {20, 50, 100} }
    \cup { <<"leaderboard_stats">> }

Quiescent == \A q \in Procs : proc[q].op = "idle"


(* --------------------------- store helpers ----------------------------- *)

Remove(f, k) == [x \in DOMAIN f \ {k} |-> f[x]]

Put(f, k, v) == [x \in DOMAIN f \cup {k} |-> IF x = k THEN v ELSE f[x]]

\* all orders in which a query without ORDER BY may return the set S
Orders(S) ==
    { s \in [1 .. Cardinality(S) -> S] : \A i, j \in 1 .. Cardinality(S) : i # j => s[i] # s[j] }

\* a row lock held by another transaction until it commits or rolls back
PredLockedByOther(p, id) ==
    \E q \in Procs \ {p} : proc[q].pendPred # <<>> /\ proc[q].arg.predictionId = id

UserLockedByOther(p, u) ==
    \E q \in Procs \ {p} : proc[q].pendUser # <<>> /\ proc[q].row[1].user_id = u

LbLockedByOther(p, u) ==
    \E q \in Procs \ {p} : u \in DOMAIN proc[q].pendLb

\* what transaction p sees of the leaderboard: the committed rows and its own writes
LbView(p) ==
    [u \in DOMAIN leaderboard \cup DOMAIN proc[p].pendLb |->
        IF u \in DOMAIN proc[p].pendLb THEN proc[p].pendLb[u] ELSE leaderboard[u]]

\* CASE WHEN total_predictions > 0
\*      THEN ROUND((correct_predictions::numeric / total_predictions) * 100, 2) ELSE 0,
\* in hundredths of a percent
AccuracyPercentage(correct, total) ==
    IF total > 0 THEN (2 * 10000 * correct + total) \div (2 * total) ELSE 0

\* ROW_NUMBER() OVER (ORDER BY points DESC, updated_at ASC): every numbering
\* 1..N of the rows that respects the order; rows equal in both keys may come
\* in either order
RowNumbers(lb) ==
    { r \in [DOMAIN lb -> 1 .. Cardinality(DOMAIN lb)] :
        /\ \A a, b \in DOMAIN lb : a # b => r[a] # r[b]
        /\ \A a, b \in DOMAIN lb :
              (\/ lb[a].points > lb[b].points
               \/ (lb[a].points = lb[b].points /\ lb[a].updated_at < lb[b].updated_at))
              => r[a] < r[b] }

\* cacheManager.del over a set of keys: if (!this.isConnected) return false, and
\* an error of the client is caught; either way the entries stay
CacheDel(keys, gone) == IF cacheUp THEN keys \ gone ELSE keys

CachedDel(entries, gone) ==
    IF cacheUp THEN [k \in DOMAIN entries \ gone |-> entries[k]] ELSE entries

\* cacheManager.set of a key without a modelled value
CacheSet(keys, key) == IF cacheUp THEN keys \cup {key} ELSE keys

\* the rows the INSERT statements create, columns not given at their defaults
NewUser(created_at) ==
    [total_points |-> 0, win_streak |-> 0, total_predictions |-> 0,
     correct_predictions |-> 0, created_at |-> created_at]

NewLeaderboardRow(updated_at) ==
    [points |-> 0, rank |-> 0, total_predictions |-> 0, accuracy_percentage |-> 0,
     updated_at |-> updated_at]

NewPrediction(u, body, expires_at, created_at) ==
    [user_id |-> u, event_type |-> body.event_type, event_title |-> body.event_title,
     prediction_value |-> body.prediction_value, confidence |-> body.confidence,
     predicted_outcome |-> body.predicted_outcome, actual_outcome |-> "",
     points_awarded |-> 0, is_resolved |-> FALSE, resolution_date |-> Undefined,
     expires_at |-> expires_at, created_at |-> created_at]

(* -------------------- scorePrediction and its callers ------------------ *)

ScorePcs == {"select", "updPred", "updUser", "upsertLb", "recalc", "commit"}

\* pcs at which a call waits in pool.connect() for a client: the sweep for its
\* own, a scorePrediction call for its own
ConnectPcs == {"sw_connect", "connect"}

\* the error pool.connect() rejects with when no client came free in time
ConnectTimeoutMsg == "timeout exceeded when trying to connect"

\* a pool in which every worker can hold the two clients a sweep uses at once
AmplePool == [max |-> 2 * Cardinality(Procs)]

\* the client a scorePrediction call holds from pool.connect() to the
\* client.release() of its finally block
ScoreClient(pr) == IF pr.pc \in ScorePcs \cup {"invalidate"} THEN 1 ELSE 0

\* the clients a request holds: resolveExpiredPredictions keeps one for its
\* whole run next to the one of the scorePrediction call in progress, a direct
\* or batch resolution has the one of its call, a route has one from its first
\* line to its finally block
ClientsHeld(pr) ==
    CASE pr.op = "idle" -> 0
      [] pr.op = "sweep" -> (IF pr.pc = "sw_connect" THEN 0 ELSE 1) + ScoreClient(pr)
      [] pr.op \in {"resolve", "batch"} -> ScoreClient(pr)
      [] OTHER -> 1

ClientsInUse == Cardinality({ x \in Procs \X {1, 2} : x[2] <= ClientsHeld(proc[x[1]]) })

\* requests queued in the pool for a client
Waiting == { q \in Procs : proc[q].pc \in ConnectPcs }

\* pool.connect() by a request that holds `held` clients: it is given a client
\* at once when one is free and no earlier request is queued for it
ClientAtOnce(held) == ClientsInUse - held < pool.max /\ Waiting = {}

\* the call: pool.connect(), with the client released by the caller's previous
\* scorePrediction call back in the pool, and BEGIN
EnterScore(pr, arg) ==
    [pr EXCEPT !.pc = IF ClientAtOnce(ScoreClient(pr)) THEN "select" ELSE "connect",
               !.arg = arg, !.txStart = now, !.row = <<>>,
               !.calc = NoCalc, !.pendPred = <<>>, !.pendUser = <<>>, !.pendLb = <<>>]

\* control after scorePrediction returned r (status ok) or threw (status error),
\* by caller: a direct call, the loop of batchResolvePredictions with its
\* try/catch per item, the loop of resolveExpiredPredictions without one
AfterScore(pr, r) ==
    LET done == [pr EXCEPT !.row = <<>>, !.calc = NoCalc, !.pendPred = <<>>,
                           !.pendUser = <<>>, !.pendLb = <<>>, !.arg = NoArg, !.txStart = 0]
        rest == Tail(pr.queue)
    IN  CASE pr.op = "resolve" ->
               [done EXCEPT !.op = "idle", !.pc = "idle", !.ret = [r EXCEPT !.of = "resolve"]]
          [] pr.op = "batch" ->
               IF rest = <<>>
               THEN LET results == Append(pr.results, r.status)
                    IN  [done EXCEPT !.op = "idle", !.pc = "idle", !.queue = <<>>,
                                     !.results = <<>>,
                                     !.ret = [OkRet EXCEPT
                                                !.of = "batch", !.count = Len(results),
                                                !.errors = Cardinality({i \in 1 .. Len(results) :
                                                                          results[i] = "error"})]]
               ELSE [EnterScore(done, rest[1]) EXCEPT !.queue = rest,
                                 !.results = Append(pr.results, r.status)]
          [] pr.op = "sweep" ->
               IF r.status = "error"
               THEN [done EXCEPT !.op = "idle", !.pc = "idle", !.queue = <<>>,
                                 !.ret = [r EXCEPT !.of = "sweep", !.count = pr.ret.count,
                                                   !.remaining = Len(rest)]]
               ELSE IF rest = <<>>
               THEN [done EXCEPT !.op = "idle", !.pc = "idle", !.queue = <<>>,
                                 !.ret = [OkRet EXCEPT !.of = "sweep", !.count = pr.ret.count]]
               ELSE [EnterScore(done, rest[1]) EXCEPT !.queue = rest]

\* Rollback with the forecast written outside the transaction: its UPDATE stays
RollbackKeepsForecastWrite(p, msg) ==
    /\ proc' = [proc EXCEPT ![p] = AfterScore(proc[p], ErrRet(msg))]
    /\ predictions' = IF proc[p].pendPred # <<>>
                      THEN [predictions EXCEPT ![proc[p].arg.predictionId] = proc[p].pendPred[1]]
                      ELSE predictions
    /\ UNCHANGED <<users, leaderboard, cache, now, nextId, calls, ticks, extra>>

\* Rollback with the cache invalidation moved into the finally block
RollbackInvalidates(p, msg) ==
    /\ proc' = [proc EXCEPT ![p] = AfterScore(proc[p], ErrRet(msg))]
    /\ cache' = {}
    /\ UNCHANGED <<users, predictions, leaderboard, now, nextId, calls, ticks, extra>>

\* catch (error) { ROLLBACK; throw error } finally { client.release() }
Rollback(p, msg) ==
    /\ proc' = [proc EXCEPT ![p] = AfterScore(proc[p], ErrRet(msg))]
    /\ UNCHANGED <<users, predictions, leaderboard, cache, now, nextId, calls, ticks, extra>>

\* scoringSystem.scorePrediction(predictionId, actualOutcome, resolutionData)
CallResolve(p, id, actualOutcome, resolutionData) ==
    /\ proc[p].op = "idle"
    /\ calls < MaxCalls
    /\ calls' = calls + 1
    /\ proc' = [proc EXCEPT ![p] =
                  EnterScore([IdleProc EXCEPT !.op = "resolve"],
                             [predictionId |-> id, actualOutcome |-> actualOutcome,
                              resolutionData |-> resolutionData])]
    /\ UNCHANGED <<users, predictions, leaderboard, cache, now, nextId, ticks, extra>>

\* SELECT p.*, u.win_streak, u.total_points ... WHERE p.id = $1, then the
\* evaluation and the points
SelectPrediction(p) ==
    /\ proc[p].pc = "select"
    /\ LET id == proc[p].arg.predictionId IN
       IF id \notin DOMAIN predictions
       THEN Rollback(p, "Prediction not found")
       ELSE LET pred == predictions[id]
                usr == users[pred.user_id]
                prediction == [user_id |-> pred.user_id, event_type |-> pred.event_type,
                               confidence |-> pred.confidence,
                               predicted_outcome |-> pred.predicted_outcome,
                               prediction_value |-> pred.prediction_value,
                               created_at |-> pred.created_at, expires_at |-> pred.expires_at,
                               is_resolved |-> pred.is_resolved,
                               win_streak |-> usr.win_streak, total_points |-> usr.total_points]
                isCorrect == evaluatePrediction(prediction, proc[p].arg.actualOutcome,
                                                proc[p].arg.resolutionData)
                basePoints == calculateBasePoints(prediction.event_type,
                                                  prediction.confidence, isCorrect)
                timeBonus == calculateTimeBonus(prediction.created_at,
                                                prediction.expires_at, basePoints)
                newStreak == IF isCorrect THEN prediction.win_streak + 1 ELSE 0
                totalPoints == IF isCorrect
                               THEN basePoints + timeBonus + calculateStreakBonus(newStreak)
                               ELSE basePoints + timeBonus
            IN  /\ proc' = [proc EXCEPT ![p].pc = "updPred", ![p].row = <<prediction>>,
                               ![p].calc = [isCorrect |-> isCorrect, basePoints |-> basePoints,
                                            timeBonus |-> timeBonus, totalPoints |-> totalPoints,
                                            newStreak |-> newStreak]]
                /\ UNCHANGED <<users, predictions, leaderboard, cache, now, nextId, calls, ticks, extra>>

\* UPDATE predictions SET actual_outcome, points_awarded, is_resolved = true,
\* resolution_date = CURRENT_TIMESTAMP WHERE id = $3
UpdatePrediction(p) ==
    /\ proc[p].pc = "updPred"
    /\ LET id == proc[p].arg.predictionId IN
       /\ ~PredLockedByOther(p, id)
       /\ proc' = [proc EXCEPT ![p].pc = "updUser",
                      ![p].pendPred =
                         IF id \in DOMAIN predictions
                         THEN << [predictions[id] EXCEPT
                                    !.actual_outcome = proc[p].arg.actualOutcome,
                                    !.points_awarded = proc[p].calc.totalPoints,
                                    !.is_resolved = TRUE,
                                    !.resolution_date = proc[p].txStart] >>
                         ELSE <<>>]
    /\ UNCHANGED <<users, predictions, leaderboard, cache, now, nextId, calls, ticks, extra>>

\* UpdateUser without win_streak = $2
UpdateUserKeepsStreak(p) ==
    /\ proc[p].pc = "updUser"
    /\ LET u == proc[p].row[1].user_id IN
       /\ ~UserLockedByOther(p, u)
       /\ proc' = [proc EXCEPT ![p].pc = "upsertLb",
                      ![p].pendUser =
                         << [users[u] EXCEPT
                               !.total_points = @ + proc[p].calc.totalPoints,
                               !.correct_predictions =
                                   @ + (IF proc[p].calc.isCorrect THEN 1 ELSE 0)] >>]
    /\ UNCHANGED <<users, predictions, leaderboard, cache, now, nextId, calls, ticks, extra>>

\* UpdateUser with total_points = $1 for total_points = total_points + $1
UpdateUserOverwritesPoints(p) ==
    /\ proc[p].pc = "updUser"
    /\ LET u == proc[p].row[1].user_id IN
       /\ ~UserLockedByOther(p, u)
       /\ proc' = [proc EXCEPT ![p].pc = "upsertLb",
                      ![p].pendUser =
                         << [users[u] EXCEPT
                               !.total_points = proc[p].calc.totalPoints,
                               !.win_streak = proc[p].calc.newStreak,
                               !.correct_predictions =
                                   @ + (IF proc[p].calc.isCorrect THEN 1 ELSE 0)] >>]
    /\ UNCHANGED <<users, predictions, leaderboard, cache, now, nextId, calls, ticks, extra>>

\* UPDATE users SET total_points = total_points + $1, win_streak = $2,
\* correct_predictions = correct_predictions + $3 WHERE id = $4
UpdateUser(p) ==
    /\ proc[p].pc = "updUser"
    /\ LET u == proc[p].row[1].user_id IN
       /\ ~UserLockedByOther(p, u)
       /\ proc' = [proc EXCEPT ![p].pc = "upsertLb",
                      ![p].pendUser =
                         << [users[u] EXCEPT
                               !.total_points = @ + proc[p].calc.totalPoints,
                               !.win_streak = proc[p].calc.newStreak,
                               !.correct_predictions =
                                   @ + (IF proc[p].calc.isCorrect THEN 1 ELSE 0)] >>]
    /\ UNCHANGED <<users, predictions, leaderboard, cache, now, nextId, calls, ticks, extra>>

\* UpsertLeaderboard taking the points from the committed users row instead of
\* the row as the transaction has updated it
UpsertLeaderboardBeforeUpdate(p) ==
    /\ proc[p].pc = "upsertLb"
    /\ LET u == proc[p].row[1].user_id
           usr == proc[p].pendUser[1]
           acc == AccuracyPercentage(usr.correct_predictions, usr.total_predictions)
       IN
       /\ ~LbLockedByOther(p, u)
       /\ proc' = [proc EXCEPT ![p].pc = "recalc",
                      ![p].pendLb =
                         Put(proc[p].pendLb, u,
                             [points |-> users[u].total_points,
                              rank |-> IF u \in DOMAIN leaderboard THEN leaderboard[u].rank ELSE 0,
                              total_predictions |-> usr.total_predictions,
                              accuracy_percentage |-> acc,
                              updated_at |-> proc[p].txStart])]
    /\ UNCHANGED <<users, predictions, leaderboard, cache, now, nextId, calls, ticks, extra>>

\* updateLeaderboard, first statement: INSERT INTO leaderboard ... SELECT ... FROM users
\* ON CONFLICT (user_id, category) DO UPDATE
UpsertLeaderboard(p) ==
    /\ proc[p].pc = "upsertLb"
    /\ LET u == proc[p].row[1].user_id
           usr == proc[p].pendUser[1]
           acc == AccuracyPercentage(usr.correct_predictions, usr.total_predictions)
       IN
       /\ ~LbLockedByOther(p, u)
       /\ proc' = [proc EXCEPT ![p].pc = "recalc",
                      ![p].pendLb =
                         Put(proc[p].pendLb, u,
                             [points |-> usr.total_points,
                              rank |-> IF u \in DOMAIN leaderboard THEN leaderboard[u].rank ELSE 0,
                              total_predictions |-> usr.total_predictions,
                              accuracy_percentage |-> acc,
                              updated_at |-> proc[p].txStart])]
    /\ UNCHANGED <<users, predictions, leaderboard, cache, now, nextId, calls, ticks, extra>>

\* recalculateRanks(client, 'overall')
recalculateRanks(p) ==
    /\ proc[p].pc = "recalc"
    /\ \A u \in DOMAIN leaderboard : ~LbLockedByOther(p, u)
    /\ \E r \in RowNumbers(LbView(p)) :
          proc' = [proc EXCEPT ![p].pc = "commit",
                      ![p].pendLb = [u \in DOMAIN LbView(p) |->
                                        [LbView(p)[u] EXCEPT !.rank = r[u]]]]
    /\ UNCHANGED <<users, predictions, leaderboard, cache, now, nextId, calls, ticks, extra>>

\* COMMIT
Commit(p) ==
    /\ proc[p].pc = "commit"
    /\ predictions' = IF proc[p].pendPred # <<>>
                      THEN [predictions EXCEPT ![proc[p].arg.predictionId] = proc[p].pendPred[1]]
                      ELSE predictions
    /\ users' = [users EXCEPT ![proc[p].row[1].user_id] = proc[p].pendUser[1]]
    /\ leaderboard' = LbView(p)
    /\ proc' = [proc EXCEPT ![p].pc = "invalidate", ![p].pendPred = <<>>,
                            ![p].pendUser = <<>>, ![p].pendLb = <<>>]
    /\ UNCHANGED <<cache, now, nextId, calls, ticks, extra>>

\* an invalidation that leaves 'leaderboard_stats' in place
InvalidatePagesOnly(p) ==
    /\ proc[p].pc = "invalidate"
    /\ cache' = CacheDel(CacheDel(cache, {SessionKey(proc[p].row[1].user_id)}),
                         LeaderboardKeys \ {<<"leaderboard_stats">>})
    /\ cached' = CachedDel(cached, LeaderboardKeys \ {<<"leaderboard_stats">>})
    /\ proc' = [proc EXCEPT ![p] = AfterScore(proc[p], OkRet)]
    /\ UNCHANGED <<users, predictions, leaderboard, now, nextId, calls, ticks,
                   cacheUp, board, probe, manager, pool>>

\* an invalidation that throws when the cache does not answer: the catch block
\* of scorePrediction rethrows after the commit
InvalidateThrowing(p) ==
    /\ proc[p].pc = "invalidate"
    /\ cache' = CacheDel(CacheDel(cache, {SessionKey(proc[p].row[1].user_id)}), LeaderboardKeys)
    /\ cached' = CachedDel(cached, LeaderboardKeys)
    /\ proc' = [proc EXCEPT ![p] =
          AfterScore(proc[p], IF cacheUp THEN OkRet ELSE ErrRet("cache unavailable"))]
    /\ UNCHANGED <<users, predictions, leaderboard, now, nextId, calls, ticks,
                   cacheUp, board, probe, manager, pool>>

\* cacheManager.invalidateUserSession, invalidateLeaderboardCaches, and the return
\* of {predictionId, isCorrect, pointsAwarded, breakdown}, built from calc
Invalidate(p) ==
    /\ proc[p].pc = "invalidate"
    /\ cache' = CacheDel(CacheDel(cache, {SessionKey(proc[p].row[1].user_id)}), LeaderboardKeys)
    /\ cached' = CachedDel(cached, LeaderboardKeys)
    /\ proc' = [proc EXCEPT ![p] =
          AfterScore(proc[p], OkRet)]
    /\ UNCHANGED <<users, predictions, leaderboard, now, nextId, calls, ticks,
                   cacheUp, board, probe, manager, pool>>

\* a statement of the transaction fails (the store is unavailable, or the
\* store aborts the transaction to break a deadlock)
StoreFailure(p) ==
    /\ proc[p].pc \in ScorePcs
    /\ Rollback(p, "store unavailable")

\* the resolutions a batch is given
BatchItems ==
    [predictionId : AnyIds \ {1}, actualOutcome : {"yes", "no"}, resolutionData : {NoResolutionData}]

\* scoringSystem.batchResolvePredictions(resolutions)
CallBatch(p, resolutions) ==
    /\ proc[p].op = "idle"
    /\ calls + Len(resolutions) <= MaxCalls
    /\ calls' = calls + Len(resolutions)
    /\ proc' = [proc EXCEPT ![p] =
                  EnterScore([IdleProc EXCEPT !.op = "batch", !.queue = resolutions],
                             resolutions[1])]
    /\ UNCHANGED <<users, predictions, leaderboard, cache, now, nextId, ticks, extra>>

\* scoringSystem.resolveExpiredPredictions(), called by the hourly timer
CallSweep(p) ==
    /\ proc[p].op = "idle"
    /\ calls + MaxPreds <= MaxCalls
    /\ proc' = [proc EXCEPT ![p] =
                  [IdleProc EXCEPT !.op = "sweep",
                                   !.pc = IF ClientAtOnce(0) THEN "sw_select" ELSE "sw_connect"]]
    /\ UNCHANGED <<users, predictions, leaderboard, cache, now, nextId, calls, ticks, extra>>

\* SweepSelect passing the outcome 'no' for 'expired'
SweepSelectAsNo(p) ==
    /\ proc[p].pc = "sw_select"
    /\ LET expired == { id \in DOMAIN predictions :
                          predictions[id].expires_at < now /\ ~predictions[id].is_resolved }
       IN  \E rows \in Orders(expired) :
             LET items == [i \in 1 .. Len(rows) |->
                             [predictionId |-> rows[i], actualOutcome |-> "no",
                              resolutionData |-> NoResolutionData]]
                 pr == [proc[p] EXCEPT !.queue = items, !.ret.count = Len(rows)]
             IN  /\ proc' = [proc EXCEPT ![p] =
                               IF items = <<>>
                               THEN [IdleProc EXCEPT !.ret = [OkRet EXCEPT !.of = "sweep"]]
                               ELSE EnterScore(pr, items[1])]
                 /\ calls' = calls + Len(rows)
    /\ UNCHANGED <<users, predictions, leaderboard, cache, now, nextId, ticks, extra>>

\* SELECT id ... FROM predictions WHERE expires_at < NOW() AND is_resolved = false,
\* then the first iteration of the loop
SweepSelect(p) ==
    /\ proc[p].pc = "sw_select"
    /\ LET expired == { id \in DOMAIN predictions :
                          predictions[id].expires_at < now /\ ~predictions[id].is_resolved }
       IN  \E rows \in Orders(expired) :
             LET items == [i \in 1 .. Len(rows) |->
                             [predictionId |-> rows[i], actualOutcome |-> "expired",
                              resolutionData |-> NoResolutionData]]
                 pr == [proc[p] EXCEPT !.queue = items, !.ret.count = Len(rows)]
             IN  /\ proc' = [proc EXCEPT ![p] =
                               IF items = <<>>
                               THEN [IdleProc EXCEPT !.ret = [OkRet EXCEPT !.of = "sweep"]]
                               ELSE EnterScore(pr, items[1])]
                 /\ calls' = calls + Len(rows)
    /\ UNCHANGED <<users, predictions, leaderboard, cache, now, nextId, ticks, extra>>

\* the sweep's own query fails: finally { client.release() }, the error propagates
SweepFailure(p) ==
    /\ proc[p].pc = "sw_select"
    /\ proc' = [proc EXCEPT ![p] =
                  [IdleProc EXCEPT !.ret = [ErrRet("store unavailable") EXCEPT !.of = "sweep"]]]
    /\ UNCHANGED <<users, predictions, leaderboard, cache, now, nextId, calls, ticks, extra>>

(* ------------------------------ signup --------------------------------- *)

\* the HTTP response of a route: the request ends
Respond(p, of, status, msg) ==
    proc' = [proc EXCEPT ![p] =
               [IdleProc EXCEPT !.ret = [NoRet EXCEPT !.status = status, !.of = of, !.error = msg]]]

\* POST /api/auth/signup: SELECT id FROM users WHERE email = $1 OR username = $2
Signup(p, u) ==
    /\ proc[p].op = "idle"
    /\ IF u \in DOMAIN users
       THEN Respond(p, "signup", "error", "User with this email or username already exists")
       ELSE proc' = [proc EXCEPT ![p] =
                       [IdleProc EXCEPT !.op = "signup", !.pc = "s_insertUser", !.req.user = u]]
    /\ UNCHANGED <<users, predictions, leaderboard, cache, now, nextId, calls, ticks, extra>>

\* INSERT INTO users (...), all counters at their defaults
SignupInsertUser(p) ==
    /\ proc[p].pc = "s_insertUser"
    /\ LET u == proc[p].req.user IN
       IF u \in DOMAIN users
       THEN /\ Respond(p, "signup", "error", "Internal server error")
            /\ UNCHANGED users
       ELSE /\ users' = Put(users, u, NewUser(now))
            /\ proc' = [proc EXCEPT ![p].pc = "s_insertLb"]
    /\ UNCHANGED <<predictions, leaderboard, cache, now, nextId, calls, ticks, extra>>

\* INSERT INTO leaderboard (user_id, points, rank) VALUES ($1, 0, 0), then
\* cacheManager.cacheUserSession and the 201 response
SignupInsertLeaderboard(p) ==
    /\ proc[p].pc = "s_insertLb"
    /\ LET u == proc[p].req.user IN
       /\ ~LbLockedByOther(p, u)
       /\ IF u \in DOMAIN leaderboard
          THEN /\ Respond(p, "signup", "error", "Internal server error")
               /\ UNCHANGED <<leaderboard, cache>>
          ELSE /\ leaderboard' = Put(leaderboard, u, NewLeaderboardRow(now))
               /\ cache' = CacheSet(cache, SessionKey(u))
               /\ Respond(p, "signup", "ok", "")
    /\ UNCHANGED <<users, predictions, now, nextId, calls, ticks, extra>>

(* ------------------------- forecast routes ----------------------------- *)

\* the fields a PUT body may carry; Undefined, "" and <<>> stand for an absent field
UpdateBodies ==
    { [confidence |-> 13, predicted_outcome |-> "", prediction_value |-> <<>>] }

\* POST bodies; duration is the offset of expires_at from the request time
BodyA ==
    [event_type |-> "custom", event_title |-> "t1",
     prediction_value |-> [threshold |-> Undefined, rate |-> Undefined],
     confidence |-> 80, predicted_outcome |-> "yes", duration |-> 7 * DAY_MS]

BodyB ==
    [event_type |-> "cpi", event_title |-> "t2",
     prediction_value |-> [threshold |-> 100, rate |-> Undefined],
     confidence |-> 80, predicted_outcome |-> "higher", duration |-> DAY_MS \div 2]

BodyC ==
    [event_type |-> "custom", event_title |-> "t3",
     prediction_value |-> [threshold |-> Undefined, rate |-> Undefined],
     confidence |-> 0, predicted_outcome |-> "no", duration |-> DAY_MS]

\* rejected: the deadline is not in the future
BodyPast == [BodyC EXCEPT !.duration = 0]

CreateBodies == {BodyA, BodyB, BodyC, BodyPast}

\* POST /api/predictions, up to the check of the deadline
CreatePrediction(p, u, body) ==
    /\ proc[p].op = "idle"
    /\ u \in DOMAIN users
    /\ nextId + Cardinality({q \in Procs : proc[q].op = "create"}) <= MaxPreds
    /\ IF now + body.duration <= now
       THEN Respond(p, "create", "error", "Prediction expiration must be in the future")
       ELSE proc' = [proc EXCEPT ![p] =
                       [IdleProc EXCEPT !.op = "create", !.pc = "c_check",
                                        !.req = [user |-> u, id |-> 0,
                                                 body |-> <<body, now + body.duration>>]]]
    /\ UNCHANGED <<users, predictions, leaderboard, cache, now, nextId, calls, ticks, extra>>

\* SELECT id FROM predictions WHERE user_id = $1 AND event_title = $2 AND is_resolved = false
CreateCheck(p) ==
    /\ proc[p].pc = "c_check"
    /\ LET u == proc[p].req.user
           body == proc[p].req.body[1]
       IN  IF \E id \in DOMAIN predictions :
                 /\ predictions[id].user_id = u
                 /\ predictions[id].event_title = body.event_title
                 /\ ~predictions[id].is_resolved
           THEN Respond(p, "create", "error", "You already have an active prediction for this event")
           ELSE proc' = [proc EXCEPT ![p].pc = "c_insert"]
    /\ UNCHANGED <<users, predictions, leaderboard, cache, now, nextId, calls, ticks, extra>>

\* INSERT INTO predictions (...) RETURNING *
CreateInsert(p) ==
    /\ proc[p].pc = "c_insert"
    /\ LET u == proc[p].req.user
           body == proc[p].req.body[1]
       IN  predictions' = Put(predictions, nextId,
                              NewPrediction(u, body, proc[p].req.body[2], now))
    /\ nextId' = nextId + 1
    /\ proc' = [proc EXCEPT ![p].pc = "c_count", ![p].req.id = nextId]
    /\ UNCHANGED <<users, leaderboard, cache, now, calls, ticks, extra>>

\* UPDATE users SET total_predictions = total_predictions + 1, then
\* invalidateUserSession and the 201 response
CreateCount(p) ==
    /\ proc[p].pc = "c_count"
    /\ LET u == proc[p].req.user IN
       /\ ~UserLockedByOther(p, u)
       /\ users' = [users EXCEPT ![u].total_predictions = @ + 1]
       /\ cache' = CacheDel(cache, {SessionKey(u)})
    /\ Respond(p, "create", "ok", "")
    /\ UNCHANGED <<predictions, leaderboard, now, nextId, calls, ticks, extra>>

\* PUT /api/predictions/:id, up to the checks on the row read
UpdateRequest(p, u, id, body) ==
    /\ proc[p].op = "idle"
    /\ u \in DOMAIN users
    /\ IF id \notin DOMAIN predictions \/ predictions[id].user_id # u
       THEN Respond(p, "update", "error", "Prediction not found")
       ELSE IF predictions[id].is_resolved
       THEN Respond(p, "update", "error", "Cannot update resolved prediction")
       ELSE IF predictions[id].expires_at <= now
       THEN Respond(p, "update", "error", "Cannot update expired prediction")
       ELSE proc' = [proc EXCEPT ![p] =
                       [IdleProc EXCEPT !.op = "update", !.pc = "u_write",
                                        !.req = [user |-> u, id |-> id, body |-> <<body>>]]]
    /\ UNCHANGED <<users, predictions, leaderboard, cache, now, nextId, calls, ticks, extra>>

\* UPDATE predictions SET prediction_value = COALESCE($1, prediction_value), ...
\* WHERE id = $5 AND user_id = $6 RETURNING *
UpdateWrite(p) ==
    /\ proc[p].pc = "u_write"
    /\ LET id == proc[p].req.id
           body == proc[p].req.body[1]
       IN  /\ ~PredLockedByOther(p, id)
           /\ IF id \in DOMAIN predictions
              THEN /\ predictions' =
                        [predictions EXCEPT
                           ![id].prediction_value =
                               IF body.prediction_value # <<>> THEN body.prediction_value[1] ELSE @,
                           ![id].confidence =
                               IF body.confidence # Undefined THEN body.confidence ELSE @,
                           ![id].predicted_outcome =
                               IF body.predicted_outcome # "" THEN body.predicted_outcome ELSE @]
                   /\ Respond(p, "update", "ok", "")
              ELSE /\ UNCHANGED predictions
                   /\ Respond(p, "update", "error", "Internal server error")
    /\ UNCHANGED <<users, leaderboard, cache, now, nextId, calls, ticks, extra>>

\* DELETE /api/predictions/:id, up to the checks on the row read
DeleteRequest(p, u, id) ==
    /\ proc[p].op = "idle"
    /\ u \in DOMAIN users
    /\ IF id \notin DOMAIN predictions \/ predictions[id].user_id # u
       THEN Respond(p, "delete", "error", "Prediction not found")
       ELSE IF predictions[id].is_resolved
       THEN Respond(p, "delete", "error", "Cannot delete resolved prediction")
       ELSE proc' = [proc EXCEPT ![p] =
                       [IdleProc EXCEPT !.op = "delete", !.pc = "d_delete",
                                        !.req = [user |-> u, id |-> id, body |-> <<>>]]]
    /\ UNCHANGED <<users, predictions, leaderboard, cache, now, nextId, calls, ticks, extra>>

\* DELETE FROM predictions WHERE id = $1 AND user_id = $2
DeleteRow(p) ==
    /\ proc[p].pc = "d_delete"
    /\ ~PredLockedByOther(p, proc[p].req.id)
    /\ predictions' = Remove(predictions, proc[p].req.id)
    /\ proc' = [proc EXCEPT ![p].pc = "d_count"]
    /\ UNCHANGED <<users, leaderboard, cache, now, nextId, calls, ticks, extra>>

\* UPDATE users SET total_predictions = total_predictions - 1, then
\* invalidateUserSession and the response
DeleteCount(p) ==
    /\ proc[p].pc = "d_count"
    /\ LET u == proc[p].req.user IN
       /\ ~UserLockedByOther(p, u)
       /\ users' = [users EXCEPT ![u].total_predictions = @ - 1]
       /\ cache' = CacheDel(cache, {SessionKey(u)})
    /\ Respond(p, "delete", "ok", "")
    /\ UNCHANGED <<predictions, leaderboard, now, nextId, calls, ticks, extra>>

\* a query of a route throws: catch { res.status(500) }
RouteFailure(p) ==
    /\ proc[p].pc \in {"s_insertUser", "s_insertLb", "c_check", "c_insert", "c_count",
                       "u_write", "d_delete", "d_count"}
    /\ Respond(p, proc[p].op, "error", "Internal server error")
    /\ UNCHANGED <<users, predictions, leaderboard, cache, now, nextId, calls, ticks, extra>>

\* time passes
Tick ==
    /\ ticks < MaxTicks
    /\ \E dt \in TickSteps : now' = now + dt
    /\ ticks' = ticks + 1
    /\ UNCHANGED <<users, predictions, leaderboard, cache, proc, nextId, calls, extra>>

(* ------------------------- leaderboard routes -------------------------- *)

\* cacheManager.cacheLeaderboard(cacheKey, response, 300), in ms
LEADERBOARD_TTL_MS == 300000
\* cacheManager.set('leaderboard_stats', response, 600), in ms
STATS_TTL_MS == 600000

\* `leaderboard:${category}_${page}_${limit}`
BoardKey(category, page, limit) == <<"leaderboard", category, page, limit>>
StatsKey == <<"leaderboard_stats">>

\* a lookup that answers from what it held before the connection was lost
CacheHitWhileDown(key) == key \in DOMAIN cached /\ cached[key].expires > now

\* a lookup that does not look at the expiry of the entry
CacheHitIgnoringExpiry(key) == cacheUp /\ key \in DOMAIN cached

\* cacheManager.get: null when the cache is unavailable, the key is absent or
\* the entry has expired
CacheHit(key) == cacheUp /\ key \in DOMAIN cached /\ cached[key].expires > now

\* what a get leaves of the entries: an expired entry it finds is dropped
CachedAfterGet(key) ==
    IF cacheUp /\ key \in DOMAIN cached /\ cached[key].expires <= now
    THEN [k \in DOMAIN cached \ {key} |-> cached[k]]
    ELSE cached

CacheAfterGet(key) ==
    IF cacheUp /\ key \in DOMAIN cached /\ cached[key].expires <= now
    THEN cache \ {key}
    ELSE cache

RECURSIVE SumPoints(_)
\* SUM(p.points_awarded) over the joined forecasts
SumPoints(ids) ==
    IF ids = {} THEN 0
    ELSE LET id == CHOOSE x \in ids : TRUE
         IN  predictions[id].points_awarded + SumPoints(ids \ {id})

\* p.created_at >= NOW() - INTERVAL 'days days'
InWindow(created_at, days) ==
    LET age == now - created_at
    IN  age \div DAY_MS < days \/ (age \div DAY_MS = days /\ age % DAY_MS = 0)

\* the forecasts the LEFT JOIN of a category attaches to user u
JoinedForecasts(category, u) ==
    { id \in DOMAIN predictions :
        /\ predictions[id].user_id = u
        /\ predictions[id].is_resolved
        /\ CASE category = "weekly" -> InWindow(predictions[id].created_at, 7)
             [] category = "monthly" -> InWindow(predictions[id].created_at, 30)
             [] OTHER -> predictions[id].event_type = category }

\* the users a category lists: the joined 'overall' rows, the groups HAVING
\* SUM(p.points_awarded) > 0, the groups HAVING COUNT(p.id) >= 3
Listed(category) ==
    CASE category = "overall" -> DOMAIN leaderboard \cap DOMAIN users
      [] category \in {"weekly", "monthly"} ->
           { u \in DOMAIN users : SumPoints(JoinedForecasts(category, u)) > 0 }
      [] OTHER ->
           { u \in DOMAIN users : Cardinality(JoinedForecasts(category, u)) >= 3 }

\* l.points, or SUM(p.points_awarded)
ListedPoints(category, u) ==
    IF category = "overall" THEN leaderboard[u].points
    ELSE SumPoints(JoinedForecasts(category, u))

\* the ranking without its second key: ORDER BY points DESC alone
RankedByPointsOnly(category) ==
    { s \in Orders(Listed(category)) :
        \A i, j \in 1 .. Len(s) :
           i < j => ListedPoints(category, s[i]) >= ListedPoints(category, s[j]) }

\* ROW_NUMBER() OVER (ORDER BY points DESC, u.created_at ASC): the orders of the
\* listed users that respect it; users equal in both keys come in either order
Ranked(category) ==
    { s \in Orders(Listed(category)) :
        \A i, j \in 1 .. Len(s) :
           i < j =>
             \/ ListedPoints(category, s[i]) > ListedPoints(category, s[j])
             \/ /\ ListedPoints(category, s[i]) = ListedPoints(category, s[j])
                /\ users[s[i]].created_at <= users[s[j]].created_at }

\* LIMIT $1 OFFSET $2 of a ranked order, as rows {position, id, points}
PageRows(category, s, page, limit) ==
    LET offset == (page - 1) * limit
        last == IF offset + limit < Len(s) THEN offset + limit ELSE Len(s)
    IN  [i \in 1 .. (IF last > offset THEN last - offset ELSE 0) |->
           [position |-> offset + i, id |-> s[offset + i],
            points |-> ListedPoints(category, s[offset + i])]]

\* SELECT position FROM (...) ranked WHERE id = $1; 0 for no row
PositionOf(s, u) ==
    IF \E i \in 1 .. Len(s) : s[i] = u THEN CHOOSE i \in 1 .. Len(s) : s[i] = u ELSE 0

\* GET /api/leaderboard?category&page&limit by user u ("" without a token):
\* pool.connect() and the cache lookup
BoardRequest(p, u, category, page, limit) ==
    /\ proc[p].op = "idle"
    /\ u = "" \/ u \in DOMAIN users
    /\ LET key == BoardKey(category, page, limit) IN
       /\ cache' = CacheAfterGet(key)
       /\ cached' = CachedAfterGet(key)
       /\ IF CacheHit(key)
          THEN /\ board' = [board EXCEPT ![p] = [cached[key].value EXCEPT !.from = "cache",
                                                                         !.user = u]]
               /\ Respond(p, "board", "ok", "")
          ELSE /\ board' = [board EXCEPT ![p] = [NoBoard EXCEPT !.status = "pending",
                                                                !.of = category, !.user = u]]
               /\ proc' = [proc EXCEPT ![p] =
                             [IdleProc EXCEPT !.op = "board", !.pc = "b_rows",
                                !.req = [user |-> u, id |-> 0,
                                         body |-> << [category |-> category, page |-> page,
                                                      limit |-> limit] >>]]]
    /\ UNCHANGED <<users, predictions, leaderboard, now, nextId, calls, ticks, cacheUp, probe, manager, pool>>

\* the page query of the category
BoardRows(p) ==
    /\ proc[p].pc = "b_rows"
    /\ LET q == proc[p].req.body[1] IN
       \E s \in Ranked(q.category) :
          board' = [board EXCEPT ![p].leaderboard = PageRows(q.category, s, q.page, q.limit)]
    /\ proc' = [proc EXCEPT ![p].pc = "b_count"]
    /\ UNCHANGED <<users, predictions, leaderboard, cache, now, nextId, calls, ticks,
                   cacheUp, cached, probe, manager, pool>>

\* the count query of the category; the rank query follows if (req.user)
BoardCount(p) ==
    /\ proc[p].pc = "b_count"
    /\ board' = [board EXCEPT ![p].totalCount = Cardinality(Listed(proc[p].req.body[1].category))]
    /\ proc' = [proc EXCEPT ![p].pc = IF proc[p].req.user # "" THEN "b_rank" ELSE "b_cache"]
    /\ UNCHANGED <<users, predictions, leaderboard, cache, now, nextId, calls, ticks,
                   cacheUp, cached, probe, manager, pool>>

\* the rank query of the category for req.user.id
BoardRank(p) ==
    /\ proc[p].pc = "b_rank"
    /\ \E s \in Ranked(proc[p].req.body[1].category) :
          board' = [board EXCEPT ![p].userRank = PositionOf(s, proc[p].req.user)]
    /\ proc' = [proc EXCEPT ![p].pc = "b_cache"]
    /\ UNCHANGED <<users, predictions, leaderboard, cache, now, nextId, calls, ticks,
                   cacheUp, cached, probe, manager, pool>>

\* cacheManager.cacheLeaderboard(cacheKey, response, 300) and res.json(response)
BoardCache(p) ==
    /\ proc[p].pc = "b_cache"
    /\ LET q == proc[p].req.body[1]
           key == BoardKey(q.category, q.page, q.limit)
           response == [board[p] EXCEPT !.status = "ok", !.from = "store"]
       IN  /\ board' = [board EXCEPT ![p] = response]
           /\ cache' = CacheSet(cache, key)
           /\ cached' = IF cacheUp
                        THEN Put(cached, key, [value |-> [response EXCEPT !.user = ""],
                                               expires |-> now + LEADERBOARD_TTL_MS])
                        ELSE cached
    /\ Respond(p, "board", "ok", "")
    /\ UNCHANGED <<users, predictions, leaderboard, now, nextId, calls, ticks, cacheUp, probe, manager, pool>>

\* GET /api/leaderboard/stats: the cache lookup
StatsRequest(p) ==
    /\ proc[p].op = "idle"
    /\ cache' = CacheAfterGet(StatsKey)
    /\ cached' = CachedAfterGet(StatsKey)
    /\ IF CacheHit(StatsKey)
       THEN /\ board' = [board EXCEPT ![p] = [cached[StatsKey].value EXCEPT !.from = "cache"]]
            /\ Respond(p, "stats", "ok", "")
       ELSE /\ board' = [board EXCEPT ![p] = [NoBoard EXCEPT !.status = "pending",
                                                             !.of = "stats"]]
            /\ proc' = [proc EXCEPT ![p] = [IdleProc EXCEPT !.op = "stats", !.pc = "st_query"]]
    /\ UNCHANGED <<users, predictions, leaderboard, now, nextId, calls, ticks, cacheUp, probe, manager, pool>>

\* SELECT COUNT(DISTINCT u.id) as total_users, MAX(l.points) as max_points, ...
\* FROM users u LEFT JOIN leaderboard l ...
StatsQuery(p) ==
    /\ proc[p].pc = "st_query"
    /\ LET pts == { leaderboard[u].points : u \in DOMAIN leaderboard \cap DOMAIN users } IN
       board' = [board EXCEPT ![p].stats =
                    << [total_users |-> Cardinality(DOMAIN users),
                        max_points |-> IF pts = {} THEN 0
                                       ELSE CHOOSE m \in pts : \A x \in pts : x <= m] >>]
    /\ proc' = [proc EXCEPT ![p].pc = "st_cache"]
    /\ UNCHANGED <<users, predictions, leaderboard, cache, now, nextId, calls, ticks,
                   cacheUp, cached, probe, manager, pool>>

\* cacheManager.set('leaderboard_stats', response, 600) and res.json(response)
StatsCache(p) ==
    /\ proc[p].pc = "st_cache"
    /\ LET response == [board[p] EXCEPT !.status = "ok", !.from = "store"] IN
       /\ board' = [board EXCEPT ![p] = response]
       /\ cache' = CacheSet(cache, StatsKey)
       /\ cached' = IF cacheUp
                    THEN Put(cached, StatsKey, [value |-> response,
                                                expires |-> now + STATS_TTL_MS])
                    ELSE cached
    /\ Respond(p, "stats", "ok", "")
    /\ UNCHANGED <<users, predictions, leaderboard, now, nextId, calls, ticks, cacheUp, probe, manager, pool>>

\* a query of a leaderboard route throws: catch { res.status(500) }
BoardFailure(p) ==
    /\ proc[p].pc \in {"b_rows", "b_count", "b_rank", "st_query"}
    /\ board' = [board EXCEPT ![p] = [NoBoard EXCEPT !.status = "error", !.of = board[p].of,
                                                     !.user = board[p].user]]
    /\ Respond(p, proc[p].op, "error", "Internal server error")
    /\ UNCHANGED <<users, predictions, leaderboard, cache, now, nextId, calls, ticks,
                   cacheUp, cached, probe, manager, pool>>

\* the connection to the cache server is lost, or its commands start to fail
CacheDown ==
    /\ cacheUp
    /\ cacheUp' = FALSE
    /\ UNCHANGED <<users, predictions, leaderboard, cache, now, proc, nextId, calls, ticks,
                   cached, board, probe, manager, pool>>

\* the cache server is reachable again; what it stored is still there
CacheRestored ==
    /\ ~cacheUp
    /\ cacheUp' = TRUE
    /\ UNCHANGED <<users, predictions, leaderboard, cache, now, proc, nextId, calls, ticks,
                   cached, board, probe, manager, pool>>

(* ---------------- direct calls of the scoring functions ---------------- *)

\* body('event_type').isIn([...]), and one type the multiplier table does not know
EventTypes ==
    {"cpi", "unemployment", "fed_rate", "gdp", "payrolls", "housing", "retail_sales",
     "ppi", "custom", "other"}

\* body('predicted_outcome').isIn([...])
PredictedOutcomes == {"yes", "no", "higher", "lower", "same", "custom"}

\* body('confidence').isInt({ min: 0, max: 100 })
MAX_CONFIDENCE == 100
Confidences == 0 .. MAX_CONFIDENCE

\* JSON.parse(prediction.prediction_value): threshold and rate absent, zero or
\* set; the values are multiples of 1/8, which doubles subtract and compare
\* exactly, and the rates of the examples
PredictionValues == [threshold : {Undefined, 0, 125}, rate : {Undefined, 0, 5250}]

\* the outcomes a caller declares, and the sweep's 'expired'
DeclaredOutcomes == {"expired", "Expired", "YES", "no", "HIGHER", "same"}

\* the resolutionData of a direct call: actualValue and previousValue absent,
\* zero or set (in thousandths, multiples of 1/8), or an actualRate absent,
\* zero or set
ProbeResolutionDatas ==
    { [actualValue |-> a, previousValue |-> b, actualRate |-> Undefined] :
        a \in {Undefined, 0, 3000, 3250}, b \in {Undefined, 0, 3125} }
    \cup
    { [actualValue |-> Undefined, previousValue |-> Undefined, actualRate |-> r] :
        r \in {Undefined, 0, 5300, 5375, 5400} }

\* every value calculateBasePoints returns
BasePointsValues ==
    { calculateBasePoints(e, c, ok) : e \in EventTypes, c \in Confidences, ok \in BOOLEAN }

\* eventTime - predictionTime, on and next to the boundaries of the tiers
EarlyMs ==
    {0, DAY_MS - 1, DAY_MS, 3 * DAY_MS - 1, 3 * DAY_MS, 7 * DAY_MS - 1, 7 * DAY_MS,
     20 * DAY_MS}

\* the direct calls made of evaluatePrediction, calculateBasePoints and calculateTimeBonus
ProbeCalls ==
    { [fn |-> "evaluatePrediction",
       args |-> << [event_type |-> e, predicted_outcome |-> o, prediction_value |-> v], a, d >>,
       result |-> <<>>] :
        e \in EventTypes, o \in PredictedOutcomes, v \in PredictionValues,
        a \in DeclaredOutcomes, d \in ProbeResolutionDatas }
    \cup
    { [fn |-> "calculateBasePoints", args |-> <<e, c, ok>>, result |-> <<>>] :
        e \in EventTypes, c \in Confidences, ok \in BOOLEAN }
    \cup
    { [fn |-> "calculateTimeBonus", args |-> <<t, t + d, b>>, result |-> <<>>] :
        t \in {0, DAY_MS}, d \in EarlyMs, b \in BasePointsValues }

CallEvaluatePrediction ==
    /\ probe.fn = "evaluatePrediction" /\ probe.result = <<>>
    /\ probe' = [probe EXCEPT !.result =
                    << evaluatePrediction(probe.args[1], probe.args[2], probe.args[3]) >>]
    /\ UNCHANGED <<users, predictions, leaderboard, cache, now, proc, nextId, calls, ticks,
                   cacheUp, cached, board, manager, pool>>

CallCalculateBasePoints ==
    /\ probe.fn = "calculateBasePoints" /\ probe.result = <<>>
    /\ probe' = [probe EXCEPT !.result =
                    << calculateBasePoints(probe.args[1], probe.args[2], probe.args[3]) >>]
    /\ UNCHANGED <<users, predictions, leaderboard, cache, now, proc, nextId, calls, ticks,
                   cacheUp, cached, board, manager, pool>>

CallCalculateTimeBonus ==
    /\ probe.fn = "calculateTimeBonus" /\ probe.result = <<>>
    /\ probe' = [probe EXCEPT !.result =
                    << calculateTimeBonus(probe.args[1], probe.args[2], probe.args[3]) >>]
    /\ UNCHANGED <<users, predictions, leaderboard, cache, now, proc, nextId, calls, ticks,
                   cacheUp, cached, board, manager, pool>>

(* --------------------------- specifications ---------------------------- *)

\* the store before the first request
InitEmpty ==
    /\ users = <<>>
    /\ predictions = <<>>
    /\ leaderboard = <<>>
    /\ cache = {}
    /\ now = 0
    /\ proc = [p \in Procs |-> IdleProc]
    /\ nextId = 1
    /\ calls = 0
    /\ ticks = 0
    /\ cacheUp = TRUE
    /\ cached = <<>>
    /\ board = [p \in Procs |-> NoBoard]
    /\ probe = NoProbe
    /\ manager = NoManager
    /\ pool = AmplePool

\* Stores in which both users have signed up and two forecasts were created,
\* all at time 0: each seed names the owner and the POST body of forecasts 1 and 2.
Seeds ==
    { << <<"u1", BodyA>>, <<"u1", BodyB>> >>,
      << <<"u1", BodyB>>, <<"u2", BodyC>> >>,
      << <<"u1", BodyB>>, <<"u1", BodyC>> >> }

InitSeeded(seed) ==
    /\ users = [u \in Users |->
                  [NewUser(0) EXCEPT !.total_predictions =
                                        Cardinality({i \in 1 .. 2 : seed[i][1] = u})]]
    /\ predictions = [i \in 1 .. 2 |->
                        NewPrediction(seed[i][1], seed[i][2], seed[i][2].duration, 0)]
    /\ leaderboard = [u \in Users |-> NewLeaderboardRow(0)]
    /\ cache = {SessionKey(u) : u \in Users \ {seed[1][1], seed[2][1]}}
    /\ now = 0
    /\ proc = [p \in Procs |-> IdleProc]
    /\ nextId = 3
    /\ calls = 0
    /\ ticks = 0
    /\ cacheUp = TRUE
    /\ cached = <<>>
    /\ board = [p \in Procs |-> NoBoard]
    /\ probe = NoProbe
    /\ manager = NoManager
    /\ pool = AmplePool

Init == \E seed \in Seeds : InitSeeded(seed)

\* a scoring request arrives at worker p
StartScoring(p) ==
    \/ \E id \in AnyIds, actualOutcome \in ActualOutcomes, resolutionData \in ResolutionDatas :
          CallResolve(p, id, actualOutcome, resolutionData)
    \/ \E resolutions \in [1 .. 2 -> BatchItems] : CallBatch(p, resolutions)
    \/ CallSweep(p)

\* a user's request to change or remove a forecast arrives at worker p
StartEdit(p) ==
    \/ \E u \in Users, id \in PredIds, body \in UpdateBodies : UpdateRequest(p, u, id, body)
    \/ \E u \in Users, id \in PredIds : DeleteRequest(p, u, id)

StartCreate(p) ==
    \E u \in Users, body \in CreateBodies : CreatePrediction(p, u, body)

StartSignup(p) ==
    \E u \in Users : Signup(p, u)

\* the next step of the request at worker p
StepScoring(p) ==
    \/ SelectPrediction(p)
    \/ UpdatePrediction(p)
    \/ UpdateUser(p)
    \/ UpsertLeaderboard(p)
    \/ recalculateRanks(p)
    \/ Commit(p)
    \/ Invalidate(p)
    \/ StoreFailure(p)
    \/ SweepSelect(p)
    \/ SweepFailure(p)

StepEdit(p) ==
    \/ UpdateWrite(p)
    \/ DeleteRow(p)
    \/ DeleteCount(p)
    \/ RouteFailure(p)

StepCreate(p) ==
    \/ CreateCheck(p)
    \/ CreateInsert(p)
    \/ CreateCount(p)

StepSignup(p) ==
    \/ SignupInsertUser(p)
    \/ SignupInsertLeaderboard(p)

\* the scoring engine and the edit routes over a seeded store, requests served
\* one after the other
Next ==
    \/ Tick
    \/ Quiescent /\ (StartScoring("p1") \/ StartEdit("p1"))
    \/ StepScoring("p1")
    \/ StepEdit("p1")

Spec == Init /\ [][Next]_vars

\* the whole program from an empty store, requests served one after the other
NextFull ==
    \/ Tick
    \/ Quiescent /\ StartSignup("p1")
    \/ Quiescent /\ \E body \in {BodyB, BodyPast} : CreatePrediction("p1", "u1", body)
    \/ Quiescent /\ \E id \in PredIds, resolutionData \in ResolutionDatas :
                       CallResolve("p1", id, "no", resolutionData)
    \/ Quiescent /\ CallSweep("p1")
    \/ Quiescent /\ StartEdit("p1")
    \/ StepSignup("p1")
    \/ StepCreate("p1")
    \/ StepScoring("p1")
    \/ StepEdit("p1")

SpecFull == InitEmpty /\ [][NextFull]_vars

\* scoring requests served concurrently over a seeded store
NextConc ==
    \/ Tick
    \/ \E p \in Procs :
          \/ \E id \in PredIds, actualOutcome \in ActualOutcomes :
                CallResolve(p, id, actualOutcome, NoResolutionData)
          \/ CallSweep(p)
          \/ StepScoring(p)

SpecConc == Init /\ [][NextConc]_vars

\* the scoring functions called directly, one call per behaviour
InitCalc ==
    /\ users = <<>>
    /\ predictions = <<>>
    /\ leaderboard = <<>>
    /\ cache = {}
    /\ now = 0
    /\ proc = [p \in Procs |-> IdleProc]
    /\ nextId = 1
    /\ calls = 0
    /\ ticks = 0
    /\ cacheUp = TRUE
    /\ cached = <<>>
    /\ board = [p \in Procs |-> NoBoard]
    /\ probe \in ProbeCalls
    /\ manager = NoManager
    /\ pool = AmplePool

NextCalc ==
    \/ CallEvaluatePrediction
    \/ CallCalculateBasePoints
    \/ CallCalculateTimeBonus

SpecCalc == InitCalc /\ [][NextCalc]_vars

\* cpi forecasts with a deadline 9 days after their creation
BodyD == [BodyB EXCEPT !.event_title = "t4", !.duration = 9 * DAY_MS]
BodyE == [BodyB EXCEPT !.event_title = "t5", !.duration = 9 * DAY_MS]
BodyF == [BodyB EXCEPT !.event_title = "t6", !.duration = 9 * DAY_MS]

\* Stores on day 8 after two signups, three POST /api/predictions and a login
\* of each user (which caches the session): each seed gives the users' signup
\* times and the owner, body and creation time of forecasts 1 to 3.
BoardSeeds ==
    { [signup |-> [u1 |-> 0, u2 |-> 1000],
       forecasts |-> << <<"u1", BodyD, 1000>>, <<"u1", BodyE, 1000>>,
                        <<"u1", BodyF, 8 * DAY_MS>> >>],
      [signup |-> [u1 |-> 1000, u2 |-> 0],
       forecasts |-> << <<"u1", BodyD, 8 * DAY_MS>>, <<"u2", BodyD, 8 * DAY_MS>>,
                        <<"u2", BodyE, 2000>> >>] }

InitBoard ==
    \E seed \in BoardSeeds :
       /\ users = [u \in Users |->
                     [NewUser(seed.signup[u]) EXCEPT
                        !.total_predictions =
                            Cardinality({i \in 1 .. 3 : seed.forecasts[i][1] = u})]]
       /\ predictions = [i \in 1 .. 3 |->
                           NewPrediction(seed.forecasts[i][1], seed.forecasts[i][2],
                                         seed.forecasts[i][3] + seed.forecasts[i][2].duration,
                                         seed.forecasts[i][3])]
       /\ leaderboard = [u \in Users |-> NewLeaderboardRow(seed.signup[u])]
       /\ cache = {SessionKey(u) : u \in Users}
       /\ now = 8 * DAY_MS
       /\ proc = [p \in Procs |-> IdleProc]
       /\ nextId = 4
       /\ calls = 0
       /\ ticks = 0
       /\ cacheUp = TRUE
       /\ cached = <<>>
       /\ board = [p \in Procs |-> NoBoard]
       /\ probe = NoProbe
       /\ manager = NoManager
       /\ pool = AmplePool

\* the categories, pages, page sizes and users of the requests
BoardCategories == {"overall", "cpi", "weekly", "monthly"}
BoardPages == {<<1, 50>>}
BoardUsers == {"", "u1"}

\* a leaderboard request arrives at worker p
StartBoard(p) ==
    \/ \E u \in BoardUsers, category \in BoardCategories, pg \in BoardPages :
          /\ \/ BoardKey(category, pg[1], pg[2]) \in DOMAIN cached
             \/ Cardinality(DOMAIN cached) < MaxCached
          /\ BoardRequest(p, u, category, pg[1], pg[2])
    \/ /\ StatsKey \in DOMAIN cached \/ Cardinality(DOMAIN cached) < MaxCached
       /\ StatsRequest(p)

\* the next step of a leaderboard page request at worker p
StepPage(p) ==
    \/ BoardRows(p)
    \/ BoardCount(p)
    \/ BoardRank(p)
    \/ BoardCache(p)
    \/ BoardFailure(p)

StepStats(p) ==
    \/ StatsQuery(p)
    \/ StatsCache(p)

\* the steps of a single scorePrediction call when the store does not fail
StepResolve(p) ==
    \/ SelectPrediction(p)
    \/ UpdatePrediction(p)
    \/ UpdateUser(p)
    \/ UpsertLeaderboard(p)
    \/ recalculateRanks(p)
    \/ Commit(p)
    \/ Invalidate(p)

\* the client has read the response of the leaderboard route
BoardDelivered(p) ==
    /\ board[p].status \in {"ok", "error"}
    /\ board' = [board EXCEPT ![p] = NoBoard]
    /\ UNCHANGED <<users, predictions, leaderboard, cache, now, proc, nextId, calls, ticks,
                   cacheUp, cached, probe, manager, pool>>

\* no request in flight and no response unread
Settled == Quiescent /\ \A p \in Procs : board[p].status = "none"

\* the leaderboard routes and the resolutions over a seeded store, requests
\* served one after the other, the cache available throughout
NextBoard ==
    \/ Settled /\ Tick
    \/ Settled /\ StartBoard("p1")
    \/ Settled /\ \E id \in 1 .. 3, resolutionData \in ResolutionDatas :
                     CallResolve("p1", id, "no", resolutionData)
    \/ StepPage("p1")
    \/ StepStats("p1")
    \/ StepResolve("p1")
    \/ BoardDelivered("p1")

SpecBoard == InitBoard /\ [][NextBoard]_vars

\* requests for the first 'overall' page and resolutions, served one after the
\* other, the cache failing and recovering between them
NextOutage ==
    \/ Settled /\ CacheDown
    \/ Settled /\ CacheRestored
    \/ Settled /\ \E u \in BoardUsers : BoardRequest("p1", u, "overall", 1, 50)
    \/ Settled /\ \E id \in 1 .. 3, resolutionData \in ResolutionDatas :
                     CallResolve("p1", id, "no", resolutionData)
    \/ StepPage("p1")
    \/ StepResolve("p1")
    \/ BoardDelivered("p1")

SpecOutage == InitBoard /\ [][NextOutage]_vars

\* a forecast of the worked example: cpi at confidence 80, made 7 days early
BodyG == [BodyB EXCEPT !.event_title = "t7", !.duration = 7 * DAY_MS]

\* streaks a user holds when the resolutions start
SeedStreaks == 0 .. 7

RECURSIVE StreakPoints(_)
\* the points of k correct custom forecasts at confidence 0 made less than a
\* day early, resolved in a row from streak 0
StreakPoints(k) ==
    IF k = 0 THEN 0
    ELSE calculateBasePoints("custom", 0, TRUE) + calculateStreakBonus(k) + StreakPoints(k - 1)

\* Stores at time 0 after two signups and 2 + streak POST /api/predictions of
\* u1: forecasts 1 and 2 are open, the later ones were resolved 'no', each
\* correct.
InitStreak ==
    \E streak \in SeedStreaks :
       /\ users = [u \in Users |->
                     IF u = "u1"
                     THEN [NewUser(0) EXCEPT !.total_predictions = 2 + streak,
                                             !.correct_predictions = streak,
                                             !.win_streak = streak,
                                             !.total_points = StreakPoints(streak)]
                     ELSE NewUser(0)]
       /\ predictions =
             [i \in 1 .. 2 + streak |->
                CASE i = 1 -> NewPrediction("u1", BodyG, BodyG.duration, 0)
                  [] i = 2 -> NewPrediction("u1", BodyC, BodyC.duration, 0)
                  [] OTHER ->
                       [NewPrediction("u1", [BodyC EXCEPT !.duration = DAY_MS \div 2],
                                      DAY_MS \div 2, 0)
                          EXCEPT !.actual_outcome = "no", !.is_resolved = TRUE,
                                 !.resolution_date = 0,
                                 !.points_awarded =
                                     StreakPoints(i - 2) - StreakPoints(i - 3)]]
       /\ leaderboard =
             [u \in Users |->
                IF streak = 0 THEN NewLeaderboardRow(0)
                ELSE IF u = "u1"
                     THEN [NewLeaderboardRow(0) EXCEPT
                             !.points = StreakPoints(streak), !.rank = 1,
                             !.total_predictions = 2 + streak,
                             !.accuracy_percentage =
                                 AccuracyPercentage(streak, 2 + streak)]
                     ELSE [NewLeaderboardRow(0) EXCEPT !.rank = 2]]
       /\ cache = {}
       /\ now = 0
       /\ proc = [p \in Procs |-> IdleProc]
       /\ nextId = 3 + streak
       /\ calls = 0
       /\ ticks = 0
       /\ cacheUp = TRUE
       /\ cached = <<>>
       /\ board = [p \in Procs |-> NoBoard]
       /\ probe = NoProbe
       /\ manager = NoManager
       /\ pool = AmplePool

\* resolutions of the two open forecasts of a user on a streak, one after the
\* other
NextStreak ==
    \/ Quiescent /\ Tick
    \/ Quiescent /\ \E id \in 1 .. 2, actualOutcome \in ActualOutcomes,
                       resolutionData \in ResolutionDatas :
                       CallResolve("p1", id, actualOutcome, resolutionData)
    \/ StepResolve("p1")

SpecStreak == InitStreak /\ [][NextStreak]_vars

\* the edit requests of user u1 at one worker while resolutions run at
\* another, over a seeded store
NextEditRace ==
    \/ \E id \in PredIds, body \in UpdateBodies : UpdateRequest("p1", "u1", id, body)
    \/ \E id \in PredIds : DeleteRequest("p1", "u1", id)
    \/ StepEdit("p1")
    \/ \E id \in PredIds : CallResolve("p2", id, "no", NoResolutionData)
    \/ StepResolve("p2")

SpecEditRace == Init /\ [][NextEditRace]_vars

(* --------------------------- cache manager ----------------------------- *)

ManagerKeys == {"leaderboard:overall_1_50", "leaderboard_stats"}
ManagerValues == {"v1", "v2"}

\* this.memoryCache = new Map(); this.isConnected = true
setupMemoryFallback(m) == [m EXCEPT !.memoryCache = << <<>> >>, !.isConnected = TRUE]

\* new CacheManager() and connect(): without USE_REDIS the memory fallback;
\* with it createClient, then the 'connect' event, or the 'error' event and the
\* catch block when the server does not answer
ManagerConnect ==
    /\ ~manager.started
    /\ \E useRedis \in BOOLEAN :
          \E redisUp \in (IF useRedis THEN BOOLEAN ELSE {TRUE}) :
             LET m == [manager EXCEPT !.started = TRUE, !.useRedis = useRedis,
                                      !.redisUp = redisUp]
             IN  manager' =
                    IF ~useRedis THEN setupMemoryFallback(m)
                    ELSE IF redisUp THEN [m EXCEPT !.client = "redis", !.isConnected = TRUE]
                    ELSE setupMemoryFallback([m EXCEPT !.client = "redis"])
    /\ UNCHANGED <<users, predictions, leaderboard, cache, now, proc, nextId, calls, ticks,
                   cacheUp, cached, board, probe, pool>>

\* the connection to the server is lost: client.on('error') or client.on('end')
RedisLost(event) ==
    /\ manager.client = "redis"
    /\ manager.redisUp
    /\ LET m == [manager EXCEPT !.redisUp = FALSE, !.isConnected = FALSE]
       IN  manager' = IF event = "error" THEN setupMemoryFallback(m) ELSE m
    /\ UNCHANGED <<users, predictions, leaderboard, cache, now, proc, nextId, calls, ticks,
                   cacheUp, cached, board, probe, pool>>

\* the client reconnects: client.on('connect')
RedisReconnected ==
    /\ manager.client = "redis"
    /\ ~manager.redisUp
    /\ manager' = [manager EXCEPT !.redisUp = TRUE, !.isConnected = TRUE]
    /\ UNCHANGED <<users, predictions, leaderboard, cache, now, proc, nextId, calls, ticks,
                   cacheUp, cached, board, probe, pool>>

\* CacheManager.set(key, value, 300): with a client the command goes to the
\* client, which without a connection rejects it (set returns false) or keeps
\* it queued (set does not return); the memory map is written only when there
\* is no client
ManagerSet(key, value) ==
    /\ manager.started
    /\ LET call(result) == [fn |-> "set", key |-> key, value |-> value, result |-> result,
                            redisUp |-> manager.redisUp]
           entry == [value |-> value, expires |-> now + LEADERBOARD_TTL_MS]
       IN  IF ~manager.isConnected
           THEN manager' = [manager EXCEPT !.last = call("false")]
           ELSE IF manager.client # "null"
           THEN IF manager.redisUp
                THEN manager' = [manager EXCEPT !.redis = Put(@, key, entry),
                                                !.last = call("true")]
                ELSE \E result \in {"false", "pending"} :
                        manager' = [manager EXCEPT !.last = call(result)]
           ELSE IF manager.memoryCache # <<>>
           THEN manager' = [manager EXCEPT
                              !.memoryCache = << Put(manager.memoryCache[1], key, entry) >>,
                              !.last = call("true")]
           ELSE manager' = [manager EXCEPT !.last = call("true")]
    /\ UNCHANGED <<users, predictions, leaderboard, cache, now, proc, nextId, calls, ticks,
                   cacheUp, cached, board, probe, pool>>

\* CacheManager.get(key): the value, or "null"
ManagerGet(key) ==
    /\ manager.started
    /\ LET call(result) == [fn |-> "get", key |-> key, value |-> "", result |-> result,
                            redisUp |-> manager.redisUp]
       IN  IF ~manager.isConnected
           THEN manager' = [manager EXCEPT !.last = call("null")]
           ELSE IF manager.client # "null"
           THEN IF manager.redisUp
                THEN IF key \in DOMAIN manager.redis /\ manager.redis[key].expires > now
                     THEN manager' = [manager EXCEPT !.last = call(manager.redis[key].value)]
                     ELSE manager' = [manager EXCEPT !.redis = Remove(@, key),
                                                     !.last = call("null")]
                ELSE \E result \in {"null", "pending"} :
                        manager' = [manager EXCEPT !.last = call(result)]
           ELSE IF manager.memoryCache # <<>> /\ key \in DOMAIN manager.memoryCache[1]
           THEN IF manager.memoryCache[1][key].expires > now
                THEN manager' = [manager EXCEPT
                                   !.last = call(manager.memoryCache[1][key].value)]
                ELSE manager' = [manager EXCEPT
                                   !.memoryCache = << Remove(manager.memoryCache[1], key) >>,
                                   !.last = call("null")]
           ELSE manager' = [manager EXCEPT !.last = call("null")]
    /\ UNCHANGED <<users, predictions, leaderboard, cache, now, proc, nextId, calls, ticks,
                   cacheUp, cached, board, probe, pool>>

\* CacheManager.del(key)
ManagerDel(key) ==
    /\ manager.started
    /\ LET call(result) == [fn |-> "del", key |-> key, value |-> "", result |-> result,
                            redisUp |-> manager.redisUp]
       IN  IF ~manager.isConnected
           THEN manager' = [manager EXCEPT !.last = call("false")]
           ELSE IF manager.client # "null"
           THEN IF manager.redisUp
                THEN manager' = [manager EXCEPT !.redis = Remove(@, key),
                                                !.last = call("true")]
                ELSE \E result \in {"false", "pending"} :
                        manager' = [manager EXCEPT !.last = call(result)]
           ELSE IF manager.memoryCache # <<>>
           THEN manager' = [manager EXCEPT
                              !.memoryCache = << Remove(manager.memoryCache[1], key) >>,
                              !.last = call("true")]
           ELSE manager' = [manager EXCEPT !.last = call("true")]
    /\ UNCHANGED <<users, predictions, leaderboard, cache, now, proc, nextId, calls, ticks,
                   cacheUp, cached, board, probe, pool>>

\* the cache manager from its construction on: connect, calls of set, get and
\* del, the connection to Redis lost and regained, time passing
NextCache ==
    \/ Tick
    \/ ManagerConnect
    \/ \E event \in {"error", "end"} : RedisLost(event)
    \/ RedisReconnected
    \/ \E key \in ManagerKeys, value \in ManagerValues : ManagerSet(key, value)
    \/ \E key \in ManagerKeys : ManagerGet(key)
    \/ \E key \in ManagerKeys : ManagerDel(key)

SpecCache == InitEmpty /\ [][NextCache]_vars

\* outcomes declared for the open forecasts of the user on a streak: 'higher'
\* makes forecast 1 correct, 'no' forecast 2
StreakOutcomes == {"higher", "no"}

\* resolutions of the two open forecasts of a user on a streak, at two workers
\* at once
NextStreakConc ==
    \E p \in Procs :
       \/ \E id \in 1 .. 2, actualOutcome \in StreakOutcomes :
             CallResolve(p, id, actualOutcome, NoResolutionData)
       \/ StepResolve(p)

SpecStreakConc == InitStreak /\ [][NextStreakConc]_vars

\* requests for the first 'overall' page at one worker while resolutions run
\* at the other, the cache available throughout
NextBoardRace ==
    \/ /\ board["p1"].status = "none"
       /\ \E u \in BoardUsers : BoardRequest("p1", u, "overall", 1, 50)
    \/ StepPage("p1")
    \/ BoardDelivered("p1")
    \/ \E id \in 1 .. 3, resolutionData \in ResolutionDatas :
          CallResolve("p2", id, "no", resolutionData)
    \/ StepResolve("p2")

SpecBoardRace == InitBoard /\ [][NextBoardRace]_vars

\* the time between two requests, in ms: a moment, just under the time to
\* live of a page, and exactly that time
TtlSteps == {1, LEADERBOARD_TTL_MS - 1, LEADERBOARD_TTL_MS}

\* time passes between two requests
TickTtl ==
    /\ ticks < MaxTtlTicks
    /\ \E dt \in TtlSteps : now' = now + dt
    /\ ticks' = ticks + 1
    /\ UNCHANGED <<users, predictions, leaderboard, cache, proc, nextId, calls, extra>>

\* requests for the first 'overall' page and for the stats, served one after
\* the other while time passes and the store stays as it is
NextTtl ==
    \/ Settled /\ TickTtl
    \/ Settled /\ \E u \in BoardUsers : BoardRequest("p1", u, "overall", 1, 50)
    \/ Settled /\ StatsRequest("p1")
    \/ StepPage("p1")
    \/ StepStats("p1")
    \/ BoardDelivered("p1")

SpecTtl == InitBoard /\ [][NextTtl]_vars

\* the store after both users have signed up at time 0, before any forecast
InitSignedUp ==
    /\ users = [u \in Users |-> NewUser(0)]
    /\ predictions = <<>>
    /\ leaderboard = [u \in Users |-> NewLeaderboardRow(0)]
    /\ cache = {}
    /\ now = 0
    /\ proc = [p \in Procs |-> IdleProc]
    /\ nextId = 1
    /\ calls = 0
    /\ ticks = 0
    /\ cacheUp = TRUE
    /\ cached = <<>>
    /\ board = [p \in Procs |-> NoBoard]
    /\ probe = NoProbe
    /\ manager = NoManager
    /\ pool = AmplePool

\* POST, PUT and DELETE requests of user u1 at two workers at once, any of
\* their statements failing
NextRoutes ==
    \E p \in Procs :
       \/ \E body \in CreateBodies : CreatePrediction(p, "u1", body)
       \/ \E id \in PredIds, body \in UpdateBodies : UpdateRequest(p, "u1", id, body)
       \/ \E id \in PredIds : DeleteRequest(p, "u1", id)
       \/ StepCreate(p)
       \/ StepEdit(p)

SpecRoutes == InitSignedUp /\ [][NextRoutes]_vars

(* --------------------------- the hourly sweep -------------------------- *)

\* forecasts whose resolution the store fails on every attempt
FailingIds == {1}

\* setInterval(async () => { try { await scoringSystem.resolveExpiredPredictions() }
\* catch (error) { console.error(...) } }, 60 * 60 * 1000): the timer fires and the
\* sweep takes a client from the pool
TimerSweep(p) ==
    /\ proc[p].op = "idle"
    /\ proc' = [proc EXCEPT ![p] =
                  [IdleProc EXCEPT !.op = "sweep",
                                   !.pc = IF ClientAtOnce(0) THEN "sw_select" ELSE "sw_connect"]]
    /\ UNCHANGED <<users, predictions, leaderboard, cache, now, nextId, calls, ticks, extra>>

\* the selection query of a sweep the timer started, then the first iteration
\* of the loop; the timer's sweeps are not counted among the calls
TimerSweepSelect(p) ==
    /\ proc[p].pc = "sw_select"
    /\ LET expired == { id \in DOMAIN predictions :
                          predictions[id].expires_at < now /\ ~predictions[id].is_resolved }
       IN  \E rows \in Orders(expired) :
             LET items == [i \in 1 .. Len(rows) |->
                             [predictionId |-> rows[i], actualOutcome |-> "expired",
                              resolutionData |-> NoResolutionData]]
                 pr == [proc[p] EXCEPT !.queue = items, !.ret.count = Len(rows)]
             IN  proc' = [proc EXCEPT ![p] =
                            IF items = <<>>
                            THEN [IdleProc EXCEPT !.ret = [OkRet EXCEPT !.of = "sweep"]]
                            ELSE EnterScore(pr, items[1])]
    /\ UNCHANGED <<users, predictions, leaderboard, cache, now, nextId, calls, ticks, extra>>

\* the next statement of a scorePrediction call over an available store: it
\* succeeds, unless the call is for one of the failing forecasts, whose
\* transaction fails at one of its statements
StepAvailable(p) ==
    \/ proc[p].arg.predictionId \notin FailingIds /\ StepResolve(p)
    \/ /\ proc[p].arg.predictionId \in FailingIds
       /\ \/ SelectPrediction(p)
          \/ UpdatePrediction(p)
          \/ StoreFailure(p)

\* the timer's sweeps, and between them resolutions by hand, at one worker
NextTimer ==
    \/ Tick
    \/ TimerSweep("p1")
    \/ TimerSweepSelect("p1")
    \/ \E id \in PredIds, actualOutcome \in ActualOutcomes :
          CallResolve("p1", id, actualOutcome, NoResolutionData)
    \/ StepAvailable("p1")

\* the timer keeps firing and every statement that can be executed is executed
FairTimer ==
    /\ WF_vars(TimerSweep("p1"))
    /\ WF_vars(TimerSweepSelect("p1"))
    /\ WF_vars(StepAvailable("p1"))

SpecTimer == Init /\ [][NextTimer]_vars /\ FairTimer

(* ------------------------- the connection pool ------------------------- *)

\* a client comes free for a request queued in pool.connect(): the sweep goes
\* on to its query, a scorePrediction call to BEGIN
Connect(p) ==
    /\ proc[p].pc \in ConnectPcs
    /\ ClientsInUse < pool.max
    /\ proc' = [proc EXCEPT ![p] =
                  IF proc[p].pc = "sw_connect"
                  THEN [proc[p] EXCEPT !.pc = "sw_select"]
                  ELSE [proc[p] EXCEPT !.pc = "select", !.txStart = now]]
    /\ UNCHANGED <<users, predictions, leaderboard, cache, now, nextId, calls, ticks, extra>>

\* no client came free within the pool's connection timeout: pool.connect()
\* rejects. The sweep's own connect is outside its try block and the sweep
\* ends with the error; a scorePrediction call throws before its try block,
\* to its caller
ConnectNeverTimesOut(p) ==
    /\ FALSE
    /\ UNCHANGED vars

ConnectTimeout(p) ==
    /\ proc[p].pc \in ConnectPcs
    /\ ClientsInUse >= pool.max
    /\ proc' = [proc EXCEPT ![p] =
                  IF proc[p].pc = "sw_connect"
                  THEN [IdleProc EXCEPT !.ret = [ErrRet(ConnectTimeoutMsg) EXCEPT !.of = "sweep"]]
                  ELSE AfterScore(proc[p], ErrRet(ConnectTimeoutMsg))]
    /\ UNCHANGED <<users, predictions, leaderboard, cache, now, nextId, calls, ticks, extra>>

\* the POST bodies of the forecasts of a store with expired forecasts
PoolBodies == <<BodyB, BodyC, BodyD, BodyE>>

\* Stores with a pool of 1 to MaxPool clients in which both users have signed
\* up and u1 has created up to MaxPreds forecasts at time 0, read after all of
\* them have expired
InitPool ==
    \E max \in 1 .. MaxPool, n \in 0 .. MaxPreds :
       /\ users = [u \in Users |->
                     [NewUser(0) EXCEPT !.total_predictions = IF u = "u1" THEN n ELSE 0]]
       /\ predictions = [i \in 1 .. n |->
                           NewPrediction("u1", PoolBodies[i], PoolBodies[i].duration, 0)]
       /\ leaderboard = [u \in Users |-> NewLeaderboardRow(0)]
       /\ cache = {}
       /\ now = 10 * DAY_MS
       /\ proc = [p \in Procs |-> IdleProc]
       /\ nextId = n + 1
       /\ calls = 0
       /\ ticks = 0
       /\ cacheUp = TRUE
       /\ cached = <<>>
       /\ board = [p \in Procs |-> NoBoard]
       /\ probe = NoProbe
       /\ manager = NoManager
       /\ pool = [max |-> max]

\* the next step of the request of a worker: the sweep's query, a statement of
\* a scorePrediction call, a client from the pool or the pool's timeout
StepPool(p) ==
    \/ TimerSweepSelect(p)
    \/ StepResolve(p)
    \/ Connect(p)
    \/ ConnectTimeout(p)

\* sweeps by the timer at both workers and resolutions by hand at the second,
\* over a pool of any capacity
NextPool ==
    \/ \E p \in Procs : TimerSweep(p)
    \/ \E id \in PredIds : CallResolve("p2", id, "no", NoResolutionData)
    \/ \E p \in Procs : StepPool(p)

\* every request in flight takes its next step when it can
FairPool == \A p \in Procs : WF_vars(StepPool(p))

SpecPool == InitPool /\ [][NextPool]_vars /\ FairPool

(* ------------------------------ claims --------------------------------- *)

\* the step in which the transaction of worker p commits
Committing(p) == proc[p].pc = "commit" /\ proc'[p].pc = "invalidate"

\* the step in which scorePrediction at worker p throws
Threw(p) ==
    proc[p].pc \in ScorePcs /\ proc'[p] # proc[p] /\ proc'[p].pc \in {"idle", "select"}

\* worker p has committed a resolution and is about to return its result
Committed(p) == proc[p].pc = "invalidate"

\* C1: a scorePrediction call on a forecast that an earlier call already
\* resolved fails with AlreadyResolved: no call that loaded a Resolved forecast
\* gets as far as committing (and awarding points) again.
C1_SecondCallAlreadyResolved ==
    \A p \in Procs : Committed(p) => ~proc[p].row[1].is_resolved

\* C2: of two overlapping resolve calls on one forecast only one commits: a
\* call that loaded the forecast Open never commits after the other call has
\* made it Resolved.
C2_ConcurrentResolveExclusive ==
    [][\A p \in Procs :
          (Committing(p) /\ ~proc[p].row[1].is_resolved)
          => ~predictions[proc[p].arg.predictionId].is_resolved]_vars

\* C3: once is_resolved is true, actual_outcome, points_awarded and is_resolved
\* of the forecast never change.
C3_ResolvedImmutable ==
    [][\A id \in DOMAIN predictions \cap DOMAIN predictions' :
          predictions[id].is_resolved
          => /\ predictions'[id].is_resolved
             /\ predictions'[id].actual_outcome = predictions[id].actual_outcome
             /\ predictions'[id].points_awarded = predictions[id].points_awarded]_vars

\* C4: no step of a resolution other than its commit changes a row of the
\* forecasts, users or leaderboard tables, so a resolution that fails before
\* its commit leaves them as they were at the call; and the failed call
\* reports the failure (a throw, or an error entry in a batch's results).
C4_FailureBeforeCommitRollsBack ==
    [][\A p \in Procs :
          (proc[p].pc \in ScorePcs /\ ~Committing(p))
          => /\ tables' = tables
             /\ (Threw(p) /\ proc[p].op \in {"resolve", "sweep"})
                   => proc'[p].ret.status = "error"
             /\ (Threw(p) /\ proc[p].op = "batch")
                   => \/ proc'[p].ret.errors > 0
                      \/ proc'[p].results[Len(proc'[p].results)] = "error"]_vars

C4_Witness ==
    /\ proc["p1"].op = "idle"
    /\ proc["p1"].ret.of = "resolve"
    /\ proc["p1"].ret.error = "store unavailable"
    /\ calls = 1
    /\ \A id \in DOMAIN predictions : ~predictions[id].is_resolved
    /\ \A u \in DOMAIN users : users[u].total_points = 0

\* C5: resolving an id that has no forecast throws 'Prediction not found' and
\* changes no row and no cache entry.
C5_NotFoundChangesNothing ==
    [][\A p \in Procs :
          (proc[p].arg.predictionId \notin DOMAIN predictions /\ SelectPrediction(p))
          => /\ Threw(p)
             /\ tables' = tables
             /\ cache' = cache
             /\ proc[p].op = "resolve"
                   => (proc'[p].ret.status = "error"
                       /\ proc'[p].ret.error = "Prediction not found")]_vars

C5_Witness ==
    /\ proc["p1"].op = "idle"
    /\ proc["p1"].ret.of = "resolve"
    /\ proc["p1"].ret.error = "Prediction not found"
    /\ cache # {}

\* C6: a resolution evaluated as incorrect has base points, time bonus and
\* total 0 and new streak 0, and once committed the forecast's points_awarded
\* is 0 and its user's win_streak is 0.
C6_IncorrectAwardsZero ==
    \A p \in Procs :
       (proc[p].pc \in {"updPred", "updUser", "upsertLb", "recalc", "commit", "invalidate"}
        /\ ~proc[p].calc.isCorrect)
       => /\ proc[p].calc.basePoints = 0
          /\ proc[p].calc.timeBonus = 0
          /\ proc[p].calc.totalPoints = 0
          /\ proc[p].calc.newStreak = 0
          /\ Committed(p)
                => /\ predictions[proc[p].arg.predictionId].points_awarded = 0
                   /\ users[proc[p].row[1].user_id].win_streak = 0

C6_Witness ==
    \E p \in Procs :
       /\ Committed(p)
       /\ ~proc[p].calc.isCorrect
       /\ proc[p].row[1].win_streak > 0
       /\ proc[p].row[1].expires_at - proc[p].row[1].created_at >= 7 * DAY_MS

\* C7: the commit of a resolution adds exactly the returned pointsAwarded to
\* the user's total_points, sets win_streak to the returned newStreak, which is
\* the old streak + 1 if correct and 0 if not, adds 1 to correct_predictions
\* iff correct, and stores the returned pointsAwarded in the forecast.
C7_CommitAppliesTheAward ==
    [][\A p \in Procs :
          Committing(p)
          => LET u == proc[p].row[1].user_id
                 id == proc[p].arg.predictionId
                 c == proc[p].calc
             IN  /\ users'[u].total_points = users[u].total_points + c.totalPoints
                 /\ users'[u].win_streak = c.newStreak
                 /\ c.newStreak = IF c.isCorrect THEN users[u].win_streak + 1 ELSE 0
                 /\ users'[u].correct_predictions =
                       users[u].correct_predictions + (IF c.isCorrect THEN 1 ELSE 0)
                 /\ predictions'[id].points_awarded = c.totalPoints]_vars

C7_Witness ==
    \E p \in Procs :
       /\ Committed(p)
       /\ proc[p].calc.isCorrect
       /\ proc[p].row[1].win_streak > 0
       /\ users[proc[p].row[1].user_id].total_points > proc[p].calc.totalPoints

\* C8: a user's total_points never decreases and win_streak is never negative.
C8_PointsMonotonicStreakNonNegative ==
    /\ [](\A u \in DOMAIN users : users[u].win_streak >= 0)
    /\ [][\A u \in DOMAIN users : users'[u].total_points >= users[u].total_points]_vars

C8_Witness ==
    \E u \in DOMAIN users :
       /\ users[u].total_points > 0
       /\ users[u].win_streak = 0
       /\ \E id \in DOMAIN predictions :
             /\ predictions[id].user_id = u
             /\ predictions[id].is_resolved
             /\ predictions[id].points_awarded = 0

\* C9: a sweep that selected forecasts ends with a summary, not a throw, and
\* has attempted every selected forecast even when the resolution of one failed.
C9_SweepIsolatesFailures ==
    \A p \in Procs :
       (proc[p].op = "idle" /\ proc[p].ret.of = "sweep" /\ proc[p].ret.count > 0)
       => (proc[p].ret.status = "ok" /\ proc[p].ret.remaining = 0)

\* C10: when the sweep's resolution of a forecast commits, the forecast is
\* resolved with actual_outcome 'expired' and points_awarded 0, and its user's
\* win_streak is 0.
C10_SweptForecastExpiredZero ==
    [][\A p \in Procs :
          (Committing(p) /\ proc[p].op = "sweep")
          => LET id == proc[p].arg.predictionId
                 u == proc[p].row[1].user_id
             IN  /\ predictions[id].expires_at < now
                 /\ predictions'[id].is_resolved
                 /\ predictions'[id].actual_outcome = "expired"
                 /\ predictions'[id].points_awarded = 0
                 /\ users'[u].win_streak = 0]_vars

C10_Witness ==
    \E p \in Procs :
       /\ Committed(p)
       /\ proc[p].op = "sweep"
       /\ proc[p].row[1].win_streak > 0
       /\ ~proc[p].row[1].is_resolved
       /\ predictions[proc[p].arg.predictionId].actual_outcome = "expired"
       /\ users[proc[p].row[1].user_id].win_streak = 0

\* C11: the sweep's outcome 'expired' with an empty resolutionData evaluates to
\* incorrect, for every event type, every allowed predicted outcome and every
\* prediction value.
C11_ExpiredEvaluatesIncorrect ==
    (/\ probe.fn = "evaluatePrediction"
     /\ probe.result # <<>>
     /\ probe.args[2] = "expired"
     /\ probe.args[3] = NoResolutionData)
    => probe.result[1] = FALSE

\* an 'expired' evaluation of a numeric forecast that predicted 'same' with a
\* threshold, and one of a fed_rate forecast with a rate, have returned
C11_Witness ==
    /\ probe.fn = "evaluatePrediction"
    /\ probe.result = <<FALSE>>
    /\ probe.args[2] = "expired"
    /\ probe.args[3] = NoResolutionData
    /\ probe.args[1].event_type = "gdp"
    /\ probe.args[1].predicted_outcome = "same"
    /\ probe.args[1].prediction_value.threshold = 125

\* the multipliers as the specification lists them, in tenths
C19_DifficultyMultiplier ==
    [cpi |-> 15, unemployment |-> 13, fed_rate |-> 20, gdp |-> 18, payrolls |-> 14,
     housing |-> 12, retail_sales |-> 11, ppi |-> 13, custom |-> 10, other |-> 10]

\* n is x / 1000 rounded to the nearest integer, a half going up (as Math.round
\* does) or to the even neighbour (as banker's rounding does)
C19_IsRounded(n, x) ==
    \/ 2 * Abs(1000 * n - x) < 1000
    \/ 1000 * n - x = 500
    \/ (x - 1000 * n = 500 /\ n % 2 = 0)

\* C19: for a correct resolution basePoints is
\* round(100 * difficultyMultiplier(eventType) * (1 + confidence * 0.01)), for
\* every event type and every confidence 0..100.
C19_BasePointsFormula ==
    (/\ probe.fn = "calculateBasePoints"
     /\ probe.result # <<>>
     /\ probe.args[3] = TRUE)
    => C19_IsRounded(probe.result[1],
                     100 * C19_DifficultyMultiplier[probe.args[1]] * (100 + probe.args[2]))

\* the named tier of a time bonus: 20, 10, 5 or 0 percent
C20_Percent(early) ==
    CASE early \div DAY_MS >= 7 -> 20
      [] early \div DAY_MS \in 3 .. 6 -> 10
      [] early \div DAY_MS \in 1 .. 2 -> 5
      [] OTHER -> 0

\* C20: the time bonus is round(basePoints * 0.20) from 7 days early on,
\* round(basePoints * 0.10) from 3 days, round(basePoints * 0.05) from 1 day and
\* 0 below, a half rounding up; 270 base points 7 days early give 54.
C20_TimeBonusTiers ==
    (probe.fn = "calculateTimeBonus" /\ probe.result # <<>>)
    => LET early == probe.args[2] - probe.args[1]
           x == probe.args[3] * C20_Percent(early)
           n == probe.result[1]
       IN  /\ 100 * n - x \in -49 .. 50
           /\ (probe.args[3] = 270 /\ early = 7 * DAY_MS) => n = 54

\* the bonus of 270 base points exactly 7 days early has been computed
C20_Witness ==
    /\ probe.fn = "calculateTimeBonus"
    /\ probe.result = <<54>>
    /\ probe.args[3] = 270
    /\ probe.args[2] - probe.args[1] = 7 * DAY_MS

\* C13: in every committed state the persisted ranks of the 'overall' rows are
\* exactly 1..N, no two users holding the same rank, after any sequence of
\* signups and resolutions.
C13_OverallRanksDense ==
    { leaderboard[u].rank : u \in DOMAIN leaderboard } = 1 .. Cardinality(DOMAIN leaderboard)

\* C12: every answer to GET /api/leaderboard?category=overall&page=1&limit=50
\* lists each user of the store's 'overall' rows once, with that row's points,
\* at positions 1, 2, .., N in this order, by points descending and, among
\* equal points, the user who signed up earlier first.
C12_OverallPageRanked ==
    \A p \in Procs :
       (board[p].status = "ok" /\ board[p].of = "overall") =>
          LET rows == board[p].leaderboard IN
          /\ \A i \in 1 .. Len(rows) : rows[i].position = i
          /\ \A i, j \in 1 .. Len(rows) : i # j => rows[i].id # rows[j].id
          /\ { rows[i].id : i \in 1 .. Len(rows) } = DOMAIN leaderboard
          /\ \A i \in 1 .. Len(rows) : rows[i].points = leaderboard[rows[i].id].points
          /\ \A i, j \in 1 .. Len(rows) :
                i < j =>
                  \/ rows[i].points > rows[j].points
                  \/ /\ rows[i].points = rows[j].points
                     /\ users[rows[i].id].created_at <= users[rows[j].id].created_at

\* an answer computed from the store in which two users tie on points they
\* have earned and the earlier signup, not the first id, comes first
C12_Witness ==
    /\ board["p1"].status = "ok"
    /\ board["p1"].of = "overall"
    /\ board["p1"].from = "store"
    /\ Len(board["p1"].leaderboard) = 2
    /\ board["p1"].leaderboard[1].id = "u2"
    /\ board["p1"].leaderboard[1].points = board["p1"].leaderboard[2].points
    /\ board["p1"].leaderboard[1].points > 0
    /\ users["u2"].created_at < users["u1"].created_at

\* C14: a user appears in the cpi leaderboard iff the user has at least 3
\* resolved cpi forecasts: every answer to GET /api/leaderboard?category=cpi
\* lists exactly those users, counts exactly them in totalCount, and gives a
\* requester a rank iff the requester is one of them.
C14_CategoryFloor ==
    \A p \in Procs :
       (board[p].status = "ok" /\ board[p].of = "cpi") =>
          LET rows == board[p].leaderboard
              qualified ==
                 { u \in DOMAIN users :
                     Cardinality({ id \in DOMAIN predictions :
                                     /\ predictions[id].user_id = u
                                     /\ predictions[id].event_type = "cpi"
                                     /\ predictions[id].is_resolved }) >= 3 }
          IN  /\ { rows[i].id : i \in 1 .. Len(rows) } = qualified
              /\ board[p].totalCount = Cardinality(qualified)
              /\ board[p].user # "" =>
                    (board[p].userRank # 0 <=> board[p].user \in qualified)

\* C15: the weekly leaderboard aggregates exactly the forecasts resolved within
\* the last 7 days, whenever they were created, and lists a user iff the sum
\* of points_awarded over those forecasts is positive, with that sum as the
\* user's points.
C15_WeeklyByResolutionTime ==
    \A p \in Procs :
       (board[p].status = "ok" /\ board[p].of = "weekly") =>
          LET rows == board[p].leaderboard
              resolvedInWindow(u) ==
                 { id \in DOMAIN predictions :
                     /\ predictions[id].user_id = u
                     /\ predictions[id].is_resolved
                     /\ InWindow(predictions[id].resolution_date, 7) }
          IN  /\ { rows[i].id : i \in 1 .. Len(rows) } =
                    { u \in DOMAIN users : SumPoints(resolvedInWindow(u)) > 0 }
              /\ \A i \in 1 .. Len(rows) :
                    rows[i].points = SumPoints(resolvedInWindow(rows[i].id))

C17_AnswerWithoutCache ==
    /\ [](\A p \in Procs :
            (board[p].status = "ok" /\ ~cacheUp) =>
               /\ board[p].from = "store"
               /\ \E s \in Ranked(board[p].of) :
                     board[p].leaderboard = PageRows(board[p].of, s, 1, 50)
               /\ board[p].totalCount = Cardinality(Listed(board[p].of))
               /\ \E s \in Ranked(board[p].of) :
                     board[p].userRank =
                        IF board[p].user = "" THEN 0 ELSE PositionOf(s, board[p].user))
    /\ [][\A p \in Procs :
            (/\ ~cacheUp
             /\ proc[p].op = "board"
             /\ proc'[p].op = "idle"
             /\ proc'[p].ret.status = "error")
               => proc[p].pc \in {"b_rows", "b_count", "b_rank"}]_vars

\* the cache went down holding the overall page, a resolution changed the
\* points since, and a request made without the cache is answered with the
\* new ranking
C17_Witness ==
    /\ ~cacheUp
    /\ BoardKey("overall", 1, 50) \in DOMAIN cached
    /\ cached[BoardKey("overall", 1, 50)].expires > now
    /\ board["p1"].status = "ok"
    /\ board["p1"].of = "overall"
    /\ board["p1"].user = "u1"
    /\ board["p1"].userRank # 0
    /\ board["p1"].leaderboard # cached[BoardKey("overall", 1, 50)].value.leaderboard

\* C18: when the cache does not answer the invalidation that follows the
\* commit, resolve still returns its result, and the store keeps the forecast
\* resolved with the points awarded and the user's total.
C18_InvalidationFailureHarmless ==
    [][\A p \in Procs :
         (proc[p].op = "resolve" /\ proc[p].pc = "invalidate" /\ proc'[p].pc = "idle"
          /\ ~cacheUp) =>
            /\ proc'[p].ret.status = "ok"
            /\ users' = users /\ predictions' = predictions /\ leaderboard' = leaderboard
            /\ predictions'[proc[p].arg.predictionId].is_resolved
            /\ predictions'[proc[p].arg.predictionId].points_awarded = proc[p].calc.totalPoints
            /\ cached' = cached]_vars

\* a resolve has committed points and is about to invalidate while the cache
\* is down with the overall page still in it
C18_Witness ==
    /\ proc["p1"].op = "resolve"
    /\ proc["p1"].pc = "invalidate"
    /\ ~cacheUp
    /\ BoardKey("overall", 1, 50) \in DOMAIN cached
    /\ predictions[proc["p1"].arg.predictionId].is_resolved
    /\ predictions[proc["p1"].arg.predictionId].points_awarded > 0

\* C22: for cpi, unemployment and gdp, whenever resolutionData supplies both
\* actualValue and previousValue, 0 included, the evaluation is numeric:
\* 'higher' is correct iff change > threshold, 'lower' iff change < -threshold,
\* 'same' iff |change| <= threshold, with change = actualValue - previousValue
\* and threshold 0 when none is given; the declared outcome plays no part.
C22_NumericWhenBothSupplied ==
    (/\ probe.fn = "evaluatePrediction"
     /\ probe.result # <<>>
     /\ probe.args[1].event_type \in {"cpi", "unemployment", "gdp"}
     /\ probe.args[1].predicted_outcome \in {"higher", "lower", "same"}
     /\ probe.args[3].actualValue # Undefined
     /\ probe.args[3].previousValue # Undefined)
    => LET change == probe.args[3].actualValue - probe.args[3].previousValue
           given == probe.args[1].prediction_value.threshold
           threshold == IF given = Undefined THEN 0 ELSE given
           o == probe.args[1].predicted_outcome
       IN  probe.result[1] =
              CASE o = "higher" -> change > threshold
                [] o = "lower" -> change < -threshold
                [] o = "same" -> change <= threshold /\ -change <= threshold

\* C23: for fed_rate, whenever predictionValue.rate and resolutionData.actualRate
\* are both present, 0 included, the forecast is correct iff the rates differ
\* by at most 0.125 (125 thousandths), the boundary counting as correct.
C23_FedRateTolerance ==
    (/\ probe.fn = "evaluatePrediction"
     /\ probe.result # <<>>
     /\ probe.args[1].event_type = "fed_rate"
     /\ probe.args[1].prediction_value.rate # Undefined
     /\ probe.args[3].actualRate # Undefined)
    => LET d == probe.args[1].prediction_value.rate - probe.args[3].actualRate
       IN  probe.result[1] = (d <= 125 /\ -d <= 125)

\* the outcomes that differ at most in letter case
C24_SameIgnoringCase(a, b) ==
    \/ a = b
    \/ {a, b} \in {{"yes", "YES"}, {"higher", "HIGHER"}, {"expired", "Expired"}}

\* C24: for every event type other than cpi, unemployment, gdp and fed_rate,
\* and for those four when the numeric data they need is missing, a forecast is
\* correct iff predicted and declared outcome are equal ignoring letter case.
C24_OutcomeComparison ==
    (/\ probe.fn = "evaluatePrediction"
     /\ probe.result # <<>>
     /\ \/ probe.args[1].event_type \notin {"cpi", "unemployment", "gdp", "fed_rate"}
        \/ /\ probe.args[1].event_type \in {"cpi", "unemployment", "gdp"}
           /\ \/ probe.args[3].actualValue = Undefined
              \/ probe.args[3].previousValue = Undefined
        \/ /\ probe.args[1].event_type = "fed_rate"
           /\ \/ probe.args[1].prediction_value.rate = Undefined
              \/ probe.args[3].actualRate = Undefined)
    => probe.result[1] = C24_SameIgnoringCase(probe.args[1].predicted_outcome, probe.args[2])

\* a payrolls forecast of 'yes' declared 'YES' was found correct, and a gdp
\* forecast of 'higher' declared 'HIGHER' with no previousValue likewise
C24_Witness ==
    /\ probe.fn = "evaluatePrediction"
    /\ probe.result = <<TRUE>>
    /\ \/ /\ probe.args[1].event_type = "payrolls"
          /\ probe.args[1].predicted_outcome = "yes"
          /\ probe.args[2] = "YES"
       \/ /\ probe.args[1].event_type = "gdp"
          /\ probe.args[1].predicted_outcome = "higher"
          /\ probe.args[2] = "HIGHER"
          /\ probe.args[3].actualValue = 3250
          /\ probe.args[3].previousValue = Undefined

\* round(10 * log2(n)) for n = 1 .. 16
C21_RoundedLog == <<0, 10, 16, 20, 23, 26, 28, 30, 32, 33, 35, 36, 37, 38, 39, 40>>

C25_EditOnlyWhileOpen ==
    [][\A p \in Procs :
         (/\ proc[p].pc \in {"u_write", "d_delete"}
          /\ proc'[p].pc # proc[p].pc
          /\ proc[p].req.id \in DOMAIN predictions
          /\ predictions[proc[p].req.id].is_resolved) =>
            /\ predictions' = predictions
            /\ proc'[p].op = "idle"
            /\ proc'[p].ret.status = "error"]_vars

\* C26: every user in the store has an 'overall' leaderboard entry once the
\* signup request has ended, also when a step of the signup failed after the
\* user row was inserted.
C26_EveryUserHasOverallRow ==
    Quiescent => \A u \in DOMAIN users : u \in DOMAIN leaderboard

\* C27: when Redis is in use and its connection could not be established or
\* was lost, a set made while the server does not answer returns true (the
\* memory map takes the entry, which a get within the TTL then returns).
C27_SetFallsBackToMemory ==
    (/\ manager.useRedis
     /\ manager.last.fn = "set"
     /\ ~manager.last.redisUp)
    => manager.last.result = "true"

\* C28: in every committed state, hence after every committed resolve, the
\* points of a user's 'overall' leaderboard row equal the user's total_points,
\* also when resolutions of two forecasts of the same user overlap.
C28_OverallPointsEqualTotal ==
    \A u \in DOMAIN users \cap DOMAIN leaderboard :
       leaderboard[u].points = users[u].total_points

\* two overlapping resolutions of different forecasts of one user have both
\* committed, and the user has earned points
C28_Witness ==
    /\ proc["p1"].pc = "invalidate"
    /\ proc["p2"].pc = "invalidate"
    /\ proc["p1"].row[1].user_id = proc["p2"].row[1].user_id
    /\ proc["p1"].arg.predictionId # proc["p2"].arg.predictionId
    /\ users[proc["p1"].row[1].user_id].total_points > 0

\* C29: once recalculateRanks has run, the rank persisted in a user's
\* 'overall' row equals the position the overall page gives that user.
C29_RankEqualsPagePosition ==
    \A p \in Procs :
       (/\ board[p].status = "ok"
        /\ board[p].of = "overall"
        /\ \A u \in DOMAIN leaderboard : leaderboard[u].rank # 0) =>
          \A i \in 1 .. Len(board[p].leaderboard) :
             leaderboard[board[p].leaderboard[i].id].rank = board[p].leaderboard[i].position

\* C30: a sweep never alters a forecast that is already resolved when the
\* sweep's resolution of it commits: the forecast keeps its actual_outcome and
\* points_awarded, and the owner's win_streak is not reset by the sweep.
C30_SweepLeavesResolvedAlone ==
    [][\A p \in Procs :
         (/\ proc[p].op = "sweep"
          /\ proc[p].pc = "commit"
          /\ proc'[p].pc = "invalidate"
          /\ proc[p].arg.predictionId \in DOMAIN predictions
          /\ predictions[proc[p].arg.predictionId].is_resolved) =>
            /\ predictions'[proc[p].arg.predictionId] = predictions[proc[p].arg.predictionId]
            /\ users'[proc[p].row[1].user_id].win_streak =
                  users[proc[p].row[1].user_id].win_streak]_vars

\* C31: with the timer firing again and again and the store available, an open
\* forecast past its deadline whose own resolution does not fail is eventually
\* resolved, also while the resolution of forecast 1 fails on every attempt.
C31_ExpiredEventuallyResolved ==
    \A id \in PredIds \ FailingIds :
       (/\ id \in DOMAIN predictions
        /\ ~predictions[id].is_resolved
        /\ predictions[id].expires_at < now)
       ~> (id \in DOMAIN predictions /\ predictions[id].is_resolved)

\* whether the resolved forecast id was evaluated against its declared outcome
\* as correct
C32_Correct(id) ==
    evaluatePrediction(predictions[id], predictions[id].actual_outcome, NoResolutionData)

\* the award of forecast id when its user holds the streak `before`
C32_Award(id, before) ==
    LET row == predictions[id]
        basePoints == calculateBasePoints(row.event_type, row.confidence, C32_Correct(id))
        timeBonus == calculateTimeBonus(row.created_at, row.expires_at, basePoints)
    IN  basePoints + timeBonus
        + (IF C32_Correct(id) THEN calculateStreakBonus(before + 1) ELSE 0)

\* the streak after forecast id was resolved at streak `before`
C32_Streak(id, before) == IF C32_Correct(id) THEN before + 1 ELSE 0

\* C32: once forecasts 1 and 2 of u1 have each been resolved by one call, u1
\* is as after resolving them one after the other in some order, from the
\* streak s, the points and the count of correct forecasts it started with:
\* win_streak and each award follow that order, total_points has grown by both
\* awards and correct_predictions by the number of correct ones.
C32_ConcurrentAsSerial ==
    (/\ Quiescent
     /\ calls = 2
     /\ predictions[1].is_resolved
     /\ predictions[2].is_resolved) =>
       LET s == users["u1"].total_predictions - 2
       IN  \E a, b \in 1 .. 2 :
              /\ a # b
              /\ predictions[a].points_awarded = C32_Award(a, s)
              /\ predictions[b].points_awarded = C32_Award(b, C32_Streak(a, s))
              /\ users["u1"].win_streak = C32_Streak(b, C32_Streak(a, s))
              /\ users["u1"].total_points =
                    StreakPoints(s) + C32_Award(a, s) + C32_Award(b, C32_Streak(a, s))
              /\ users["u1"].correct_predictions =
                    s + Cardinality({id \in 1 .. 2 : C32_Correct(id)})

\* the resolved forecasts of user u
C33_ResolvedOf(u) ==
    { id \in DOMAIN predictions : predictions[id].user_id = u /\ predictions[id].is_resolved }

\* C33: whenever no request is in flight, the total_points of every user is
\* the sum of points_awarded over the user's resolved forecasts (what
\* getUserAccuracy returns as totalPoints), after any sequence of signups,
\* creates, updates, deletes, resolutions and sweeps.
C33_TotalPointsIsSumOfAwards ==
    Quiescent => \A u \in DOMAIN users : users[u].total_points = SumPoints(C33_ResolvedOf(u))

\* C34: the userRank of an answer to GET /api/leaderboard is the position of
\* the user who made the request in a ranking of the category (null, here 0,
\* for a request without a token or a user the category does not list),
\* whether the answer was computed from the store or served from the cache.
C34_UserRankIsTheRequesters ==
    \A p \in Procs :
       (board[p].status = "ok" /\ board[p].of \in LeaderboardCategories) =>
          \E s \in Ranked(board[p].of) :
             board[p].userRank =
                IF board[p].user = "" THEN 0 ELSE PositionOf(s, board[p].user)

\* C35: once every resolution has finished its invalidation, a page the
\* cache still serves is a page of the store as the resolutions left it: no
\* page computed from the rows before a commit outlives the invalidation that
\* followed the commit.
C35_NoStalePageAfterInvalidation ==
    (cacheUp /\ \A q \in Procs : proc[q].op # "resolve") =>
       \A key \in DOMAIN cached \ {StatsKey} :
          CacheHit(key) =>
             \E s \in Ranked(key[2]) :
                cached[key].value.leaderboard = PageRows(key[2], s, key[3], key[4])

\* the key a request of worker p for `of` looks up
C36_KeyOf(of) == IF of = "stats" THEN StatsKey ELSE BoardKey(of, 1, 50)

\* worker p takes a request in this step and answers it or goes to the store
C36_Requested(p) ==
    /\ board[p].status = "none"
    /\ board'[p].status \in {"ok", "pending"}

\* C36: an answer is written to the cache with 300 s to live for a page and
\* 600 s for the stats, counted from the write; a request is answered from
\* the cache only while that time has not passed; and a request that finds
\* the entry past its time goes to the store and writes the entry anew.
C36_NotServedAfterTtl ==
    [][\A p \in Procs :
          /\ (proc[p].pc = "b_cache" /\ proc'[p].pc = "idle" /\ cacheUp) =>
                LET key == C36_KeyOf(board[p].of)
                IN  key \in DOMAIN cached' /\ cached'[key].expires - now = 300000
          /\ (proc[p].pc = "st_cache" /\ proc'[p].pc = "idle" /\ cacheUp) =>
                StatsKey \in DOMAIN cached' /\ cached'[StatsKey].expires - now = 600000
          /\ (C36_Requested(p) /\ board'[p].from = "cache") =>
                LET key == C36_KeyOf(board'[p].of)
                IN  /\ key \in DOMAIN cached
                    /\ cached[key].expires > now
                    /\ board'[p].leaderboard = cached[key].value.leaderboard
                    /\ board'[p].stats = cached[key].value.stats
          /\ (C36_Requested(p) /\ C36_KeyOf(board'[p].of) \in DOMAIN cached
              /\ cached[C36_KeyOf(board'[p].of)].expires <= now) =>
                /\ board'[p].status = "pending"
                /\ proc'[p].pc \in {"b_rows", "st_query"}]_vars

\* the page and the stats were cached at the same moment and 300 s have
\* passed: the page is past its time, the stats are not
C36_Witness ==
    /\ Settled
    /\ cacheUp
    /\ BoardKey("overall", 1, 50) \in DOMAIN cached
    /\ StatsKey \in DOMAIN cached
    /\ cached[BoardKey("overall", 1, 50)].expires = now
    /\ cached[StatsKey].expires = now + 300000

\* the resolved forecasts of user u that carry points
C37_WithPoints(u) ==
    { id \in DOMAIN predictions :
        /\ predictions[id].user_id = u
        /\ predictions[id].is_resolved
        /\ predictions[id].points_awarded > 0 }

\* C37: a resolution evaluated as correct computes points above 0 and one
\* evaluated as incorrect computes 0; and whenever no request is in flight the
\* number of a user's resolved forecasts with points above 0 is the user's
\* correct_predictions.
C37_CorrectIffPoints ==
    /\ \A p \in Procs :
          proc[p].pc \in {"updPred", "updUser", "upsertLb", "recalc", "commit", "invalidate"}
          => (proc[p].calc.isCorrect <=> proc[p].calc.totalPoints > 0)
    /\ Quiescent =>
          \A u \in DOMAIN users :
             Cardinality(C37_WithPoints(u)) = users[u].correct_predictions

\* C38: whenever no request is in flight, the total_predictions of every user
\* is the number of forecasts of that user in the store.
C38_TotalPredictionsCountsForecasts ==
    Quiescent =>
       \A u \in DOMAIN users :
          users[u].total_predictions =
             Cardinality({id \in DOMAIN predictions : predictions[id].user_id = u})

\* C39: no user has two unresolved forecasts with the same event_title: a
\* POST for a title the user already holds unresolved inserts no row, however
\* two POST requests of the user interleave.
C39_OneOpenForecastPerTitle ==
    \A a, b \in DOMAIN predictions :
       (/\ a # b
        /\ predictions[a].user_id = predictions[b].user_id
        /\ ~predictions[a].is_resolved
        /\ ~predictions[b].is_resolved)
       => predictions[a].event_title # predictions[b].event_title

\* C40: a sweep that has started ends, for every pool capacity from 1 on and
\* every number of expired forecasts, also next to other sweeps and
\* resolutions: it never waits forever for a client of the pool
C40_SweepTerminates ==
    \A p \in Procs : (proc[p].op = "sweep") ~> (proc[p].op = "idle")

\* a sweep over a pool of one client has waited for a second one and ended
C40_Witness ==
    \E p \in Procs :
       /\ pool.max = 1
       /\ proc[p].op = "idle"
       /\ proc[p].ret.of = "sweep"
       /\ proc[p].ret.error = ConnectTimeoutMsg
       /\ proc[p].ret.count > 0

====
